---- MODULE Spec2Model ----
(***************************************************************************)
(* Prologot: the binding layer between a host scripting runtime (Godot     *)
(* Variants) and an embedded SWI-Prolog engine (src/src/Prologot.cpp).     *)
(*                                                                         *)
(* Modelling conventions                                                   *)
(*  - A host String is a sequence of lexemes (Seq of TLA+ strings): the    *)
(*    empty String is <<>>, "its first character" is the first character   *)
(*    of its first lexeme, "its last character is a period" is "its last   *)
(*    lexeme is the period".  White space is not modelled.                 *)
(*  - A Variant is a record tagged by k; a Dictionary is a set of          *)
(*    <<key, value>> pairs with unique keys.                               *)
(*  - A term is a record tagged by t; term_t 0 is InvalidTerm.             *)
(*  - The engine is a record; every PL_* call of the code is an operator   *)
(*    on it, and each public method is an operator from (instance, engine, *)
(*    arguments, engine choices) to (instance, engine, return value).      *)
(***************************************************************************)
EXTENDS Integers, Sequences, FiniteSets, TLC

VARIABLES self, engine, last, hist, conv, objects, m_singleton

vars == <<self, engine, last, hist, conv, objects, m_singleton>>

\* ------------------------------------------------------------------ bounds

\* Largest number of nodes (leaves, arrays, dictionaries) of a converted value.
MaxSize == 4

\* ---------------------------------------------------------------- Variants

VNil == [k |-> "nil"]
VBool(b) == [k |-> "bool", b |-> b]
VInt(i) == [k |-> "int", i |-> i]
VFloat(f) == [k |-> "float", f |-> f]
VStr(s) == [k |-> "str", s |-> s]
VArr(a) == [k |-> "arr", a |-> a]
VDict(d) == [k |-> "dict", d |-> d]

\* The keys of the reserved compound representation, and one other key.
FunctorKey == <<"functor">>
ArgsKey == <<"args">>
OtherKey == <<"other">>

\* Dictionary::has(key)
DictHas(d, key) == \E p \in d : p[1] = key

\* Dictionary::operator[](key), for a key the dictionary has
DictGet(d, key) == (CHOOSE p \in d : p[1] = key)[2]

\* result[var_name] = value
DictPut(d, key, val) == {p \in d : p[1] # key} \cup {<<key, val>>}

\* ------------------------------------------------------------------- terms

InvalidTerm == [t |-> "invalid"]
VarTerm(id) == [t |-> "var", id |-> id]
AtomTerm(name) == [t |-> "atom", name |-> name]
IntTerm(i) == [t |-> "int", i |-> i]
FloatTerm(f) == [t |-> "float", f |-> f]
StringTerm(s) == [t |-> "string", s |-> s]
NilTerm == [t |-> "nil"]
ListTerm(h, tl) == [t |-> "list", head |-> h, tail |-> tl]
CompoundTerm(name, args) == [t |-> "compound", name |-> name, args |-> args]

\* The lexemes of the two reserved names.
EmptyListName == <<"[]">>
ListFunctorName == <<"[|]">>

\* PL_cons_functor_v(t, PL_new_functor(name, arity), args): the engine gives
\* the atom for arity 0 and a list cell for '[|]'/2.
PL_cons_functor_v(name, args) ==
    IF Len(args) = 0 THEN AtomTerm(name)
    ELSE IF name = ListFunctorName /\ Len(args) = 2 THEN ListTerm(args[1], args[2])
    ELSE CompoundTerm(name, args)

\* PL_term_type(p_term)
PL_term_type(p_term) ==
    CASE p_term.t = "var" -> "PL_VARIABLE"
      [] p_term.t = "atom" -> "PL_ATOM"
      [] p_term.t = "int" -> "PL_INTEGER"
      [] p_term.t = "float" -> "PL_FLOAT"
      [] p_term.t = "string" -> "PL_STRING"
      [] p_term.t = "nil" -> "PL_NIL"
      [] p_term.t = "list" -> "PL_LIST_PAIR"
      [] p_term.t = "compound" -> "PL_TERM"
      [] OTHER -> "PL_UNKNOWN"

\* PL_get_list(l, h, t) succeeds exactly on a list cell.
PL_get_list(p_term) == p_term.t = "list"

\* ------------------------------------------------------- value conversion

RECURSIVE term_to_variant(_)
RECURSIVE ListElems(_)

\* while (PL_get_list(tail, head, tail)) list_array.push_back(term_to_variant(head))
ListElems(p_term) ==
    IF PL_get_list(p_term)
    THEN <<term_to_variant(p_term.head)>> \o ListElems(p_term.tail)
    ELSE <<>>

\* CompoundToVariant with the argument loop stopping one short (i < arity).
CompoundToVariantShort(p_term) ==
    IF PL_get_list(p_term) THEN VArr(ListElems(p_term))
    ELSE IF Len(p_term.args) = 0 /\ p_term.name = EmptyListName THEN VArr(<<>>)
    ELSE VDict({<<FunctorKey, VStr(p_term.name)>>,
                <<ArgsKey, VArr([i \in 1..(Len(p_term.args) - 1) |->
                                    term_to_variant(p_term.args[i])])>>})

\* The PL_TERM case: a list first, then the zero-arity [], then the
\* {"functor": name, "args": [...]} dictionary.
CompoundToVariant(p_term) ==
    IF PL_get_list(p_term) THEN VArr(ListElems(p_term))
    ELSE IF Len(p_term.args) = 0 /\ p_term.name = EmptyListName THEN VArr(<<>>)
    ELSE VDict({<<FunctorKey, VStr(p_term.name)>>,
                <<ArgsKey, VArr([i \in 1..Len(p_term.args) |->
                                    term_to_variant(p_term.args[i])])>>})

term_to_variant(p_term) ==
    CASE PL_term_type(p_term) = "PL_VARIABLE" -> VNil
      [] PL_term_type(p_term) = "PL_ATOM" -> VStr(p_term.name)
      [] PL_term_type(p_term) = "PL_INTEGER" -> VInt(p_term.i)
      [] PL_term_type(p_term) = "PL_FLOAT" -> VFloat(p_term.f)
      [] PL_term_type(p_term) = "PL_STRING" -> VStr(p_term.s)
      [] PL_term_type(p_term) = "PL_NIL" -> VArr(<<>>)
      [] PL_term_type(p_term) = "PL_LIST_PAIR" -> VArr(ListElems(p_term))
      [] PL_term_type(p_term) = "PL_TERM" -> CompoundToVariant(p_term)
      [] OTHER -> VNil

\* fails: the values whose own PL_put_* / PL_cons_* call the engine refuses
\* (returns 0), as on an allocation failure.
RECURSIVE variant_to_term(_, _)
RECURSIVE BuildList(_, _, _, _)
RECURSIVE ConvertArgs(_, _, _, _)
RECURSIVE BuildListForward(_, _, _, _)

\* BuildList walking the array from its first element: the list comes out
\* reversed.
BuildListForward(arr, i, list, fails) ==
    IF i = 0 THEN list
    ELSE LET elem == variant_to_term(arr[Len(arr) - i + 1], fails)
         IN  IF elem.t = "invalid" THEN InvalidTerm
             ELSE BuildListForward(arr, i - 1, ListTerm(elem, list), fails)

\* for (i = size - 1; i >= 0; i--): cons arr[i] in front of list.  i counts
\* the elements still to prepend.
BuildList(arr, i, list, fails) ==
    IF i = 0 THEN list
    ELSE LET elem == variant_to_term(arr[i], fails)
         IN  IF elem.t = "invalid" THEN InvalidTerm
             ELSE BuildList(arr, i - 1, ListTerm(elem, list), fails)

\* for (i = 0; i < arity; i++): args + i = variant_to_term(args_arr[i]).
\* Gives <<InvalidTerm>> as soon as one conversion fails.
ConvertArgs(args_arr, i, done, fails) ==
    IF i > Len(args_arr) THEN done
    ELSE LET arg == variant_to_term(args_arr[i], fails)
         IN  IF arg.t = "invalid" THEN <<InvalidTerm>>
             ELSE ConvertArgs(args_arr, i + 1, Append(done, arg), fails)

\* DictToTerm that asks for exactly the two keys.
DictToTermExactKeys(p_var, fails) ==
    IF DictHas(p_var.d, FunctorKey) /\ DictHas(p_var.d, ArgsKey)
           /\ Cardinality(p_var.d) = 2
    THEN LET functor == DictGet(p_var.d, FunctorKey).s
             args_arr == DictGet(p_var.d, ArgsKey).a
             args == ConvertArgs(args_arr, 1, <<>>, fails)
         IN  IF args = <<InvalidTerm>> \/ p_var \in fails THEN InvalidTerm
             ELSE PL_cons_functor_v(functor, args)
    ELSE IF p_var \in fails THEN InvalidTerm ELSE AtomTerm(EmptyListName)

\* case Variant::DICTIONARY
DictToTerm(p_var, fails) ==
    IF DictHas(p_var.d, FunctorKey) /\ DictHas(p_var.d, ArgsKey)
    THEN LET functor == DictGet(p_var.d, FunctorKey).s
             args_arr == DictGet(p_var.d, ArgsKey).a
             args == ConvertArgs(args_arr, 1, <<>>, fails)
         IN  IF args = <<InvalidTerm>> \/ p_var \in fails THEN InvalidTerm
             ELSE PL_cons_functor_v(functor, args)
    ELSE IF p_var \in fails THEN InvalidTerm ELSE AtomTerm(EmptyListName)

variant_to_term(p_var, fails) ==
    CASE p_var.k = "nil" ->
            IF p_var \in fails THEN InvalidTerm ELSE AtomTerm(EmptyListName)
      [] p_var.k = "bool" ->
            IF p_var \in fails THEN InvalidTerm
            ELSE AtomTerm(IF p_var.b THEN <<"true">> ELSE <<"false">>)
      [] p_var.k = "int" ->
            IF p_var \in fails THEN InvalidTerm ELSE IntTerm(p_var.i)
      [] p_var.k = "float" ->
            IF p_var \in fails THEN InvalidTerm ELSE FloatTerm(p_var.f)
      [] p_var.k = "str" ->
            IF p_var \in fails THEN InvalidTerm ELSE AtomTerm(p_var.s)
      [] p_var.k = "arr" ->
            IF p_var \in fails THEN InvalidTerm
            ELSE IF Len(p_var.a) = 0 THEN NilTerm
            ELSE BuildList(p_var.a, Len(p_var.a), NilTerm, fails)
      [] p_var.k = "dict" -> DictToTerm(p_var, fails)
      [] OTHER -> IF p_var \in fails THEN InvalidTerm ELSE AtomTerm(EmptyListName)

\* ------------------------------------------------------------ host Strings

\* Lexemes whose first character is an uppercase ASCII letter.
UpperInitial == {"X", "Y", "Tom", "PrologotResults__", "Name", "Arity"}

\* The decimal rendering of the integers 0..9.
Digits == <<"0", "1", "2", "3", "4", "5", "6", "7", "8", "9">>

DigitLexemes == {Digits[i] : i \in 1..Len(Digits)}

Punctuation == {"(", ")", ",", ".", "/", ":-", "[", "]", "<null>", "1.5"}

\* c >= 'A' && c <= 'Z', for the first character of a lexeme
IsUpperInitial(lex) == lex \in UpperInitial

\* Lexemes whose first character is the underscore.
UnderscoreInitial == {"_", "_Who"}

\* c == '_', for the first character of a lexeme
IsUnderscoreInitial(lex) == lex \in UnderscoreInitial

\* A lexeme that reads as a Prolog atom: a name in lower case.
IsNameLexeme(lex) ==
    /\ ~IsUpperInitial(lex)
    /\ ~IsUnderscoreInitial(lex)
    /\ lex \notin DigitLexemes
    /\ lex \notin Punctuation

\* String(arg) of a Variant that is not a String, for the kinds passed as
\* arguments here.
VariantToString(arg) ==
    CASE arg.k = "int" /\ arg.i \in 0..9 -> <<Digits[arg.i + 1]>>
      [] arg.k = "bool" -> IF arg.b THEN <<"true">> ELSE <<"false">>
      [] arg.k = "float" -> <<"1.5">>
      [] arg.k = "nil" -> <<"<null>">>

\* StripTrailingPeriod leaving the String as it is.
KeepTrailingPeriod(s) == s

\* if (len > 0 && s[len - 1] == '.') s = s.substr(0, len - 1)
StripTrailingPeriod(s) ==
    IF Len(s) > 0 /\ s[Len(s)] = "." THEN SubSeq(s, 1, Len(s) - 1) ELSE s

RECURSIVE JoinArgs(_, _)
\* The loop of build_query: the arguments from index i on, separated by ", ".
JoinArgs(p_args, i) ==
    IF i > Len(p_args) THEN <<>>
    ELSE (IF i > 1 THEN <<",">> ELSE <<>>)
            \o (IF p_args[i].k = "str" THEN p_args[i].s
                ELSE VariantToString(p_args[i]))
            \o JoinArgs(p_args, i + 1)

build_query(p_predicate, p_args) ==
    LET predicate == StripTrailingPeriod(p_predicate)
    IN  IF Len(p_args) = 0 THEN predicate
        ELSE predicate \o <<"(">> \o JoinArgs(p_args, 1) \o <<")">>

\* ------------------------------------------------------ the engine's reader

\* A parse: ok, the term read, and the index of the next lexeme.
ParseFail == [ok |-> FALSE, term |-> InvalidTerm, next |-> 0]

Parsed(term, next) == [ok |-> TRUE, term |-> term, next |-> next]

RECURSIVE ParseArg(_, _)
RECURSIVE ParsePrimary(_, _)
RECURSIVE ParseArgs(_, _, _)

\* After the argument a of name(arg, ..., arg): "," and the next argument,
\* or the closing ")".
AfterArg(toks, a, done) ==
    IF ~a.ok \/ a.next > Len(toks) THEN ParseFail
    ELSE IF toks[a.next] = "," THEN ParseArgs(toks, a.next + 1, Append(done, a.term))
    ELSE IF toks[a.next] = ")" THEN Parsed(Append(done, a.term), a.next + 1)
    ELSE ParseFail

\* name(arg, ..., arg): the arguments from lexeme i up to the closing ")".
ParseArgs(toks, i, done) == AfterArg(toks, ParseArg(toks, i), done)

\* left / right, right having been read.
InfixTerm(left, right) ==
    IF right.ok
    THEN Parsed(CompoundTerm(<<"/">>, <<left.term, right.term>>), right.next)
    ELSE ParseFail

\* After the primary a: the infix "/" and its right side, or nothing more.
AfterPrimary(toks, a) ==
    IF a.ok /\ a.next <= Len(toks) /\ toks[a.next] = "/"
    THEN InfixTerm(a, ParsePrimary(toks, a.next + 1))
    ELSE a

\* One argument at lexeme i: a primary, or primary / primary.
ParseArg(toks, i) == AfterPrimary(toks, ParsePrimary(toks, i))

\* name(args), args having been read.
CompoundRead(name, args) ==
    IF args.ok THEN Parsed(CompoundTerm(<<name>>, args.term), args.next)
    ELSE ParseFail

\* One primary at lexeme i: a variable, a number, an atom or a compound. A
\* named variable (upper case or underscore first) is the same variable
\* wherever it stands in the text; every "_" is a variable of its own, told
\* apart by its position.
ParsePrimary(toks, i) ==
    IF i > Len(toks) THEN ParseFail
    ELSE IF toks[i] = "_" THEN Parsed(VarTerm(<<toks[i], i>>), i + 1)
    ELSE IF IsUpperInitial(toks[i]) \/ IsUnderscoreInitial(toks[i])
         THEN Parsed(VarTerm(<<toks[i], 0>>), i + 1)
    ELSE IF toks[i] \in DigitLexemes
         THEN Parsed(IntTerm((CHOOSE n \in 1..Len(Digits) : Digits[n] = toks[i]) - 1),
                     i + 1)
    ELSE IF ~IsNameLexeme(toks[i]) THEN ParseFail
    ELSE IF i < Len(toks) /\ toks[i + 1] = "("
         THEN CompoundRead(toks[i], ParseArgs(toks, i + 2, <<>>))
    ELSE Parsed(AtomTerm(<<toks[i]>>), i + 1)

\* The term a is the whole text, closed or not by a full stop.
WholeText(chars, a) ==
    IF a.ok /\ (a.next = Len(chars) + 1
                  \/ (a.next = Len(chars) /\ chars[a.next] = "."))
    THEN [ok |-> TRUE, term |-> a.term]
    ELSE [ok |-> FALSE, term |-> InvalidTerm]

RECURSIVE ParseTerm(_, _)

\* left , right at the top of the text, right having been read.
ConjTerm(left, right) ==
    IF right.ok
    THEN Parsed(CompoundTerm(<<",">>, <<left.term, right.term>>), right.next)
    ELSE ParseFail

\* After the goal a at the top of the text: a comma there is the
\* conjunction, with the rest of the text as its right side.
AfterGoal(toks, a) ==
    IF a.ok /\ a.next <= Len(toks) /\ toks[a.next] = ","
    THEN ConjTerm(a, ParseTerm(toks, a.next + 1))
    ELSE a

\* The term at the top of the text from lexeme i: one argument-level term,
\* or a conjunction of them.  Between the arguments of a compound the comma
\* only separates (AfterArg).
ParseTerm(toks, i) == AfterGoal(toks, ParseArg(toks, i))

\* PL_chars_to_term(chars, t): one term, closed or not by a full stop.
PL_chars_to_term(chars) == WholeText(chars, ParseTerm(chars, 1))

\* --------------------------------------------------------------- the engine
\* The engine is a record: running (between PL_initialise and PL_cleanup),
\* kb (the user clauses, ground facts, in assertion order), defined (the
\* name/arity pairs of the user procedures that exist), bootstrap (how many
\* helper clauses of consult_string are asserted), open (the queries opened
\* and not yet closed) and log (the PL_* calls of the running operation).

\* PL_S_EXCEPTION, the extended status of a query that raised.
PL_S_EXCEPTION == -1

\* The procedures of the engine itself used here: calling them works,
\* asserting or retracting their clauses is refused.
Builtins == {<<<<"findall">>, 3>>, <<<<"retractall">>, 1>>, <<<<"true">>, 0>>,
             <<<<"current_predicate">>, 1>>}

EngineDown == [running |-> FALSE, kb |-> <<>>, defined |-> {}, bootstrap |-> 0,
               open |-> 0, log |-> <<>>]

Log(eng, call) == [eng EXCEPT !.log = Append(@, call)]

\* PL_get_name_arity(t, &name, &arity) succeeds on atoms and compounds, list
\* cells included.
IsCallable(term) == term.t \in {"atom", "compound", "list"}

TermName(term) == IF term.t = "list" THEN ListFunctorName ELSE term.name

\* The arguments PL_get_arg(i, t, a) reads.
TermArgs(term) ==
    CASE term.t = "compound" -> term.args
      [] term.t = "list" -> <<term.head, term.tail>>
      [] OTHER -> <<>>

Indicator(term) == <<TermName(term), Len(TermArgs(term))>>

RECURSIVE Shape(_, _)
\* pattern and the ground term agree wherever pattern is not a variable.
Shape(pattern, ground) ==
    CASE pattern.t = "var" -> TRUE
      [] pattern.t \in {"compound", "list"} ->
            /\ ground.t = pattern.t
            /\ Indicator(pattern) = Indicator(ground)
            /\ \A i \in 1..Len(TermArgs(pattern)) :
                  Shape(TermArgs(pattern)[i], TermArgs(ground)[i])
      [] OTHER -> pattern = ground

RECURSIVE Bindings(_, _)
\* The <<variable, value>> pairs of unifying pattern with a ground term of
\* the same shape.
Bindings(pattern, ground) ==
    CASE pattern.t = "var" -> {<<pattern, ground>>}
      [] pattern.t \in {"compound", "list"} ->
            UNION {Bindings(TermArgs(pattern)[i], TermArgs(ground)[i]) :
                   i \in 1..Len(TermArgs(pattern))}
      [] OTHER -> {}

\* Unification of a goal with a ground fact: the same shape, and a variable
\* that stands twice standing for equal terms.
Matches(goal, fact) ==
    /\ IsCallable(goal)
    /\ Shape(goal, fact)
    /\ \A p, q \in Bindings(goal, fact) : p[1] = q[1] => p[2] = q[2]

RECURSIVE Subst(_, _)
\* term with the variables bound in binds replaced by their values; the
\* other variables stay unbound.
Subst(term, binds) ==
    CASE term.t = "var" ->
            IF \E p \in binds : p[1] = term
            THEN (CHOOSE p \in binds : p[1] = term)[2]
            ELSE term
      [] term.t = "compound" ->
            [term EXCEPT !.args = [i \in 1..Len(term.args) |->
                                      Subst(term.args[i], binds)]]
      [] term.t = "list" -> ListTerm(Subst(term.head, binds), Subst(term.tail, binds))
      [] OTHER -> term

RECURSIVE MakeList(_)
\* The proper list of a sequence of terms.
MakeList(elems) ==
    IF Len(elems) = 0 THEN NilTerm ELSE ListTerm(Head(elems), MakeList(Tail(elems)))

\* The facts of the knowledge base a goal matches, in assertion order.
MatchingFacts(eng, goal) == SelectSeq(eng.kb, LAMBDA f : Matches(goal, f))

\* RemoveFirst taking every matching clause away.
RemoveEvery(kb, goal) == SelectSeq(kb, LAMBDA f : ~Matches(goal, f))

RECURSIVE RemoveFirst(_, _)
\* kb without its first clause matching goal.
RemoveFirst(kb, goal) ==
    IF Len(kb) = 0 THEN <<>>
    ELSE IF Matches(goal, Head(kb)) THEN Tail(kb)
    ELSE <<Head(kb)>> \o RemoveFirst(Tail(kb), goal)

\* What one step of a query gives: outcome "true", "false" or "exception",
\* the goal as the solution binds it, the exception's text, and the engine.
Solved(eng, term) == [outcome |-> "true", term |-> term, exc |-> <<>>, eng |-> eng]
NotSolved(eng, term) == [outcome |-> "false", term |-> term, exc |-> <<>>, eng |-> eng]
Raised(eng, term, exc) == [outcome |-> "exception", term |-> term, exc |-> exc, eng |-> eng]

\* The heads of the helper clauses initialize() asserts, in order.
BootstrapHeads == << <<<<"load_program_from_string">>, 1>>,
                    <<<<"prologot_load_clauses">>, 1>>,
                    <<<<"prologot_process_clause">>, 1>>,
                    <<<<"prologot_process_clause">>, 1>>,
                    <<<<"prologot_process_clause">>, 1>> >>

\* The name/arity pairs of the procedures of module user.
UserProcedures(eng) ==
    eng.defined \cup {BootstrapHeads[i] : i \in 1..eng.bootstrap}

RECURSIVE SetToSeq(_)
\* The elements of a finite set in the engine's (some fixed) order.
SetToSeq(S) ==
    IF S = {} THEN <<>>
    ELSE SetToSeq(S \ {CHOOSE y \in S : TRUE}) \o <<CHOOSE y \in S : TRUE>>

\* Name/Arity as a term.
IndicatorTerm(ind) == CompoundTerm(<<"/">>, <<AtomTerm(ind[1]), IntTerm(ind[2])>>)

\* One fact current_predicate(Name/Arity) per name/arity pair of inds.
IndicatorFacts(inds) ==
    [i \in 1..Len(inds) |->
        CompoundTerm(<<"current_predicate">>, <<IndicatorTerm(inds[i])>>)]

\* current_predicate(Name/Arity) read as facts, one per user procedure.
CurrentPredicateFacts(eng) == IndicatorFacts(SetToSeq(UserProcedures(eng)))

\* Whether calling the goal finds a procedure.
ProcedureExists(eng, goal) ==
    Indicator(goal) \in eng.defined \cup {<<<<"true">>, 0>>, <<<<"current_predicate">>, 1>>}

\* The bindings of goal against each of the facts.
BindingsOf(goal, facts) == [i \in 1..Len(facts) |-> Bindings(goal, facts[i])]

\* The solutions of a goal on a procedure, in order, each as its bindings.
Solutions(eng, goal) ==
    CASE Indicator(goal) = <<<<"true">>, 0>> -> <<{}>>
      [] Indicator(goal) = <<<<"current_predicate">>, 1>> ->
            BindingsOf(goal, SelectSeq(CurrentPredicateFacts(eng),
                                       LAMBDA f : Matches(goal, f)))
      [] OTHER -> BindingsOf(goal, MatchingFacts(eng, goal))

\* FirstOf giving the goal under the last of its solutions.
LastOf(eng, goal, sols) ==
    IF Len(sols) = 0 THEN NotSolved(eng, goal)
    ELSE Solved(eng, Subst(goal, sols[Len(sols)]))

\* The goal under the first of its solutions, if it has one.
FirstOf(eng, goal, sols) ==
    IF Len(sols) = 0 THEN NotSolved(eng, goal) ELSE Solved(eng, Subst(goal, sols[1]))

\* A goal on a procedure: its first solution, none, or existence_error when
\* the procedure does not exist.
CallProcedure(eng, goal) ==
    IF ~ProcedureExists(eng, goal) THEN Raised(eng, goal, <<"existence_error">>)
    ELSE FirstOf(eng, goal, Solutions(eng, goal))

\* The instances of template, one per solution.
InstancesOf(template, sols) == [i \in 1..Len(sols) |-> Subst(template, sols[i])]

\* findall's last step: Results is unified with the list collected.
Collected(eng, goal, list) ==
    IF goal.args[3].t = "var" \/ goal.args[3] = list
    THEN Solved(eng, [goal EXCEPT !.args[3] = list])
    ELSE NotSolved(eng, goal)

\* findall(Template, Goal, Results): Results is the list of the instances of
\* Template, one per solution of Goal, in the order of the solutions.
CallFindall(eng, goal) ==
    IF goal.args[2].t = "var" THEN Raised(eng, goal, <<"instantiation_error">>)
    ELSE IF ~IsCallable(goal.args[2]) THEN Raised(eng, goal, <<"type_error">>)
    ELSE IF ~ProcedureExists(eng, goal.args[2])
         THEN Raised(eng, goal, <<"existence_error">>)
    ELSE Collected(eng, goal,
                   MakeList(InstancesOf(goal.args[1], Solutions(eng, goal.args[2]))))

\* Why the engine refuses clause as the clause or head of assert, retract or
\* retractall, <<>> when it does not.
Refusal(clause) ==
    IF clause.t = "var" THEN <<"instantiation_error">>
    ELSE IF ~IsCallable(clause) THEN <<"type_error">>
    ELSE IF Indicator(clause) \in Builtins THEN <<"permission_error">>
    ELSE <<>>

\* CallRetractall failing when no clause matches.
CallRetractallSomeMatch(eng, goal) ==
    IF Refusal(goal.args[1]) # <<>> THEN Raised(eng, goal, Refusal(goal.args[1]))
    ELSE IF MatchingFacts(eng, goal.args[1]) = <<>> THEN NotSolved(eng, goal)
    ELSE Solved([eng EXCEPT
                    !.kb = SelectSeq(eng.kb, LAMBDA f : ~Matches(goal.args[1], f)),
                    !.defined = @ \cup {Indicator(goal.args[1])}],
                goal)

\* retractall(Head): every matching clause goes, and the procedure exists
\* afterwards.
CallRetractall(eng, goal) ==
    IF Refusal(goal.args[1]) # <<>> THEN Raised(eng, goal, Refusal(goal.args[1]))
    ELSE Solved([eng EXCEPT
                    !.kb = SelectSeq(eng.kb, LAMBDA f : ~Matches(goal.args[1], f)),
                    !.defined = @ \cup {Indicator(goal.args[1])}],
                goal)

RECURSIVE ConjFirst(_, _, _, _)
\* The conjunction goal from the i-th solution of its left side on: the
\* first of them under which the right side, a goal on a procedure, has a
\* solution.
ConjFirst(eng, goal, sols, i) ==
    IF i > Len(sols) THEN NotSolved(eng, goal)
    ELSE IF ~IsCallable(Subst(goal.args[2], sols[i]))
    THEN Raised(eng, goal, <<"type_error">>)
    ELSE IF ~ProcedureExists(eng, Subst(goal.args[2], sols[i]))
    THEN Raised(eng, goal, <<"existence_error">>)
    ELSE IF Solutions(eng, Subst(goal.args[2], sols[i])) = <<>>
    THEN ConjFirst(eng, goal, sols, i + 1)
    ELSE Solved(eng, Subst(Subst(goal, sols[i]),
                           Solutions(eng, Subst(goal.args[2], sols[i]))[1]))

\* (Left, Right), each a goal on a procedure.
CallConjunction(eng, goal) ==
    IF goal.args[1].t = "var" THEN Raised(eng, goal, <<"instantiation_error">>)
    ELSE IF ~IsCallable(goal.args[1]) THEN Raised(eng, goal, <<"type_error">>)
    ELSE IF ~ProcedureExists(eng, goal.args[1])
    THEN Raised(eng, goal, <<"existence_error">>)
    ELSE ConjFirst(eng, goal, Solutions(eng, goal.args[1]), 1)

\* call(Goal)
Call(eng, goal) ==
    IF goal.t = "var" THEN Raised(eng, goal, <<"instantiation_error">>)
    ELSE IF ~IsCallable(goal) THEN Raised(eng, goal, <<"type_error">>)
    ELSE IF Indicator(goal) = <<<<",">>, 2>> THEN CallConjunction(eng, goal)
    ELSE IF Indicator(goal) = <<<<"findall">>, 3>> THEN CallFindall(eng, goal)
    ELSE IF Indicator(goal) = <<<<"retractall">>, 1>> THEN CallRetractall(eng, goal)
    ELSE CallProcedure(eng, goal)

\* assert(Clause): the clause goes last.
CallAssert(eng, clause) ==
    IF Refusal(clause) # <<>> THEN Raised(eng, clause, Refusal(clause))
    ELSE Solved([eng EXCEPT !.kb = Append(@, clause),
                            !.defined = @ \cup {Indicator(clause)}],
                clause)

\* retract's step on the clauses that match.
Retracted(eng, clause, facts) ==
    IF Len(facts) = 0 THEN NotSolved(eng, clause)
    ELSE Solved([eng EXCEPT !.kb = RemoveFirst(@, clause)],
                Subst(clause, Bindings(clause, facts[1])))

\* retract(Clause): the first matching clause goes; no clause, no solution.
CallRetract(eng, clause) ==
    IF Refusal(clause) # <<>> THEN Raised(eng, clause, Refusal(clause))
    ELSE Retracted(eng, clause, MatchingFacts(eng, clause))

\* The file consult/1 can find, with its text.
GraphFile == <<"graph.pl">>
GraphText == <<"edge", "(", "a", ",", "b", ")", ".">>
GraphProcedures == {<<<<"edge">>, 2>>}

\* Where the first clause of text ends: at its first full stop, or past the
\* end of the text.
ClauseEnd(text) ==
    IF \E i \in 1..Len(text) : text[i] = "."
    THEN CHOOSE i \in 1..Len(text) : text[i] = "." /\ \A j \in 1..(i - 1) : text[j] # "."
    ELSE Len(text) + 1

RECURSIVE LoadClauses(_, _, _)

\* After the assertion of one clause: the rest of the text.
AfterClause(asserted, rest, goal) ==
    IF asserted.outcome = "exception" THEN Raised(asserted.eng, goal, asserted.exc)
    ELSE LoadClauses(asserted.eng, rest, goal)

\* The clause read is asserted; one that cannot be read raises syntax_error.
LoadClause(eng, read, rest, goal) ==
    IF ~read.ok THEN Raised(eng, goal, <<"syntax_error">>)
    ELSE AfterClause(CallAssert(eng, read.term), rest, goal)

\* Reads the text clause by clause, each closed by a full stop (the last one
\* by the end of the text too), and asserts each one; the clauses before one
\* that raises stay asserted.
LoadClauses(eng, text, goal) ==
    IF Len(text) = 0 THEN Solved(eng, goal)
    ELSE LoadClause(eng, PL_chars_to_term(SubSeq(text, 1, ClauseEnd(text) - 1)),
                    SubSeq(text, ClauseEnd(text) + 1, Len(text)), goal)

\* consult(File): the procedures of the file are defined anew from its text;
\* a file that is not there raises existence_error.
CallConsult(eng, file) ==
    IF file.name = GraphFile
    THEN LoadClauses([eng EXCEPT !.kb = SelectSeq(@, LAMBDA f :
                                      Indicator(f) \notin GraphProcedures)],
                     GraphText, file)
    ELSE Raised(eng, file, <<"existence_error">>)

\* load_program_from_string(Code), the first helper clause of initialize()
CallLoadProgramFromString(eng, code) ==
    IF eng.bootstrap = 0 THEN Raised(eng, code, <<"existence_error">>)
    ELSE LoadClauses(eng, code.s, code)

\* ----------------------------------------------------- the query protocol

\* PL_open_query(NULL, PL_Q_CATCH_EXCEPTION, pred, t0)
PL_open_query(eng) == [Log(eng, "PL_open_query") EXCEPT !.open = @ + 1]

\* PL_close_query(qid)
PL_close_query(eng) == [Log(eng, "PL_close_query") EXCEPT !.open = @ - 1]

\* The term PL_chars_to_term reads from predicates[i - 1] of initialize().
BootstrapClause(i) == [t |-> "clause", index |-> i]

\* assertz(Clause) of a helper clause of initialize().
CallAssertz(eng, clause) ==
    Solved([eng EXCEPT !.bootstrap = clause.index], clause)

\* The first solution of the query on predicate pred with argument t0.
FirstSolution(eng, pred, t0) ==
    CASE pred = "call" -> Call(eng, t0)
      [] pred = "assert" -> CallAssert(eng, t0)
      [] pred = "assertz" -> CallAssertz(eng, t0)
      [] pred = "retract" -> CallRetract(eng, t0)
      [] pred = "consult" -> CallConsult(eng, t0)
      [] pred = "load_program_from_string" -> CallLoadProgramFromString(eng, t0)

\* What the engine decides by itself during one operation:
\*   status_ext  a step that raises reports PL_S_EXCEPTION (TRUE) or, the
\*               query being opened without PL_Q_EXT_STATUS, 0 (FALSE);
\*   render      PL_get_chars can write the exception as text;
\*   cons        PL_cons_functor_v succeeds;
\*   fails       the values whose PL_put_* call is refused;
\*   put_bad     PL_put_term from term 0 reports success;
\*   put_ok      PL_put_term from a valid term succeeds;
\*   init_ok     PL_initialise succeeds, init_exc being the exception it
\*               leaves when it does not (<<>> for none);
\*   parse_fail_at, raise_at   the helper clause of initialize() that cannot
\*               be read, or whose assertz raises (0 for none);
\*   raise       the step raises resource_error whatever its goal.
NormalChoice ==
    [status_ext |-> TRUE, render |-> TRUE, cons |-> TRUE, fails |-> {},
     put_bad |-> FALSE, put_ok |-> TRUE, init_ok |-> TRUE, init_exc |-> <<>>,
     parse_fail_at |-> 0, raise_at |-> 0, raise |-> FALSE]

\* The status PL_next_solution reports for the step s.
StatusOf(s, ch) ==
    [result |-> CASE s.outcome = "true" -> 1
                  [] s.outcome = "false" -> 0
                  [] s.outcome = "exception" ->
                        IF ch.status_ext THEN PL_S_EXCEPTION ELSE 0,
     term |-> s.term, exc |-> s.exc, eng |-> s.eng]

\* int result = PL_next_solution(qid), with what the step leaves behind: the
\* bound argument, the pending exception (<<>> for none) and the engine.
PL_next_solution(eng, pred, t0, ch) ==
    StatusOf(IF ch.raise
             THEN Raised(Log(eng, "PL_next_solution"), t0, <<"resource_error">>)
             ELSE FirstSolution(Log(eng, "PL_next_solution"), pred, t0),
             ch)

\* PL_initialise(argc, argv)
PL_initialise(eng, ch) ==
    IF ch.init_ok THEN [Log(eng, "PL_initialise") EXCEPT !.running = TRUE]
    ELSE Log(eng, "PL_initialise")

\* PL_cleanup(0): the engine and its knowledge base are gone.
PL_cleanup(eng) ==
    [EngineDown EXCEPT !.open = eng.open, !.log = Append(eng.log, "PL_cleanup")]

\* ------------------------------------------------------------ the instance
\* An instance is the record of the members of class Prologot.  What a
\* public method gives: the instance and the engine after it, its return
\* value as a Variant, what it logged through UtilityFunctions::push_error,
\* and why it returned what it did:
\*   "ok", "NoSolution", "NotInitialized", "EmptyInput", "ParseFailure",
\*   "EngineException" (the step raised), "ConversionFailure" (an argument
\*   or the goal term could not be built), "InitFailure".

\* Prologot::Prologot()
NewInstance ==
    [m_initialized |-> FALSE, m_last_error |-> <<>>,
     m_on_error |-> "print", m_on_warning |-> "print"]

Out(slf, eng, ret, why, printed) ==
    [self |-> slf, eng |-> eng, ret |-> ret, why |-> why, printed |-> printed]

\* m_last_error = p_message, written directly
SetLastError(slf, p_message) == [slf EXCEPT !.m_last_error = p_message]

push_error(slf, p_message, p_type) ==
    LET option == IF p_type = "warning" THEN slf.m_on_warning ELSE slf.m_on_error
    IN  [self |-> SetLastError(slf, p_message),
         printed |-> IF option \in {"print", "halt"}
                     THEN <<<<"Prologot: ">> \o p_message>>
                     ELSE <<>>]

\* exc is what PL_exception(p_qid) gives, <<>> for 0.
handle_prolog_exception(slf, exc, p_context, ch) ==
    IF exc # <<>> /\ ch.render
    THEN LET pushed == push_error(slf, p_context \o <<" error: ">> \o exc, "error")
         IN  [self |-> pushed.self, printed |-> pushed.printed, handled |-> TRUE]
    ELSE [self |-> slf, printed |-> <<>>, handled |-> FALSE]

\* What RunQuery gives: returned says the method returns from the exception
\* branch; otherwise the query is still open.
Ran(returned, step, slf, printed, eng) ==
    [returned |-> returned, result |-> step.result, term |-> step.term,
     exc |-> step.exc, self |-> slf, printed |-> printed, eng |-> eng]

\* AfterStep returning from its exception branch without PL_close_query.
AfterStepLeavingOpen(slf, step, h) ==
    IF step.result = PL_S_EXCEPTION
    THEN Ran(TRUE, step, h.self, h.printed, Log(step.eng, "PL_exception"))
    ELSE Ran(FALSE, step, slf, <<>>, step.eng)

\*     if (result == PL_S_EXCEPTION)
\*         { handle_prolog_exception(qid, context); PL_close_query(qid); return ...; }
\* h is what handle_prolog_exception gives when it is called.
AfterStep(slf, step, h) ==
    IF step.result = PL_S_EXCEPTION
    THEN Ran(TRUE, step, h.self, h.printed,
             PL_close_query(Log(step.eng, "PL_exception")))
    ELSE Ran(FALSE, step, slf, <<>>, step.eng)

\* The exception as the handler finds it after the step.
Handled(slf, step, p_context, ch) ==
    AfterStep(slf, step, handle_prolog_exception(slf, step.exc, p_context, ch))

\* The block every querying method repeats:
\*     qid = PL_open_query(NULL, PL_Q_CATCH_EXCEPTION, pred, t0);
\*     result = PL_next_solution(qid);
\*     if (result == PL_S_EXCEPTION) ...
RunQuery(slf, eng, pred, t0, p_context, ch) ==
    Handled(slf, PL_next_solution(PL_open_query(eng), pred, t0, ch), p_context, ch)

\* Why a method that ran a query returned: the step raised, found a
\* solution, or found none.
QueryWhy(r) ==
    IF r.exc # <<>> THEN "EngineException"
    ELSE IF r.result # 0 THEN "ok" ELSE "NoSolution"

\* The tail of the methods that return bool:
\*     PL_close_query(qid); return result != 0;
BoolOut(r) ==
    IF r.returned THEN Out(r.self, r.eng, VBool(FALSE), QueryWhy(r), r.printed)
    ELSE Out(r.self, PL_close_query(r.eng), VBool(r.result # 0), QueryWhy(r), <<>>)

\* A method returning because of an error it records itself.
Failed(slf, eng, p_message, ret, why) ==
    Out(SetLastError(slf, p_message), eng, ret, why, <<>>)

RECURSIVE Bootstrap(_, _, _, _)

\* AfterAssertz going on to the next clause with the query still open.
AfterAssertzLeavingOpen(slf, step, i, ch) ==
    IF step.result = PL_S_EXCEPTION \/ step.result = 0
    THEN Failed(slf, PL_cleanup(PL_close_query(Log(step.eng, "PL_exception"))),
                IF step.exc # <<>> /\ ch.render
                THEN <<"Failed to assert bootstrap predicate: ">> \o step.exc
                ELSE <<"Failed to assert bootstrap predicate: ", "predicates[i]">>,
                VBool(FALSE), "InitFailure")
    ELSE Bootstrap(slf, step.eng, i + 1, ch)

\*     if (result == PL_S_EXCEPTION || !result) { m_last_error = ...;
\*         PL_close_query(qid); PL_cleanup(0); return false; }
\*     PL_close_query(qid);
AfterAssertz(slf, step, i, ch) ==
    IF step.result = PL_S_EXCEPTION \/ step.result = 0
    THEN Failed(slf, PL_cleanup(PL_close_query(Log(step.eng, "PL_exception"))),
                IF step.exc # <<>> /\ ch.render
                THEN <<"Failed to assert bootstrap predicate: ">> \o step.exc
                ELSE <<"Failed to assert bootstrap predicate: ", "predicates[i]">>,
                VBool(FALSE), "InitFailure")
    ELSE Bootstrap(slf, PL_close_query(step.eng), i + 1, ch)

\* Bootstrap returning on a clause that does not parse with the engine
\* left running.
BootstrapLeavingEngine(slf, eng, i, ch) ==
    IF i > Len(BootstrapHeads)
    THEN Out([slf EXCEPT !.m_initialized = TRUE], eng, VBool(TRUE), "ok", <<>>)
    ELSE IF ch.parse_fail_at = i
    THEN Failed(slf, Log(eng, "PL_chars_to_term"),
                <<"Failed to parse bootstrap predicate: ", "predicates[i]">>,
                VBool(FALSE), "InitFailure")
    ELSE AfterAssertz(slf,
                      PL_next_solution(PL_open_query(Log(eng, "PL_chars_to_term")),
                                       "assertz", BootstrapClause(i),
                                       [ch EXCEPT !.raise = (ch.raise_at = i)]),
                      i, ch)

\* for (i = 0; predicates[i] != nullptr; i++), then m_initialized = true.
\* i counts the helper clauses from 1.
Bootstrap(slf, eng, i, ch) ==
    IF i > Len(BootstrapHeads)
    THEN Out([slf EXCEPT !.m_initialized = TRUE], eng, VBool(TRUE), "ok", <<>>)
    ELSE IF ch.parse_fail_at = i
    THEN Failed(slf, PL_cleanup(Log(eng, "PL_chars_to_term")),
                <<"Failed to parse bootstrap predicate: ", "predicates[i]">>,
                VBool(FALSE), "InitFailure")
    ELSE AfterAssertz(slf,
                      PL_next_solution(PL_open_query(Log(eng, "PL_chars_to_term")),
                                       "assertz", BootstrapClause(i),
                                       [ch EXCEPT !.raise = (ch.raise_at = i)]),
                      i, ch)

\*     if (!PL_initialise(...)) { if (!handle_prolog_exception(0, "PL_initialise"))
\*         m_last_error = "PL_initialise() failed (no details available)";
\*         return false; }
InitialiseFailed(slf, eng, h) ==
    IF ~h.handled
    THEN Failed(slf, eng, <<"PL_initialise() failed (no details available)">>,
                VBool(FALSE), "InitFailure")
    ELSE Out(h.self, eng, VBool(FALSE), "InitFailure", h.printed)

\* slf with m_on_error and m_on_warning stored.
Started(slf, eng, ch) ==
    IF ~ch.init_ok
    THEN InitialiseFailed(slf, eng,
             handle_prolog_exception(slf, ch.init_exc, <<"PL_initialise">>, ch))
    ELSE Bootstrap(slf, eng, 1, ch)

\* p_options is read for "on error" and "on warning"; the options that only
\* shape the engine's command line are not modelled.
initialize(slf, eng, p_options, ch) ==
    IF slf.m_initialized THEN Out(slf, eng, VBool(TRUE), "ok", <<>>)
    ELSE Started([slf EXCEPT !.m_on_error = p_options.on_error,
                             !.m_on_warning = p_options.on_warning],
                 PL_initialise(eng, ch), ch)

\* cleanup that shuts the engine down and leaves m_initialized set.
cleanup_keeping_flag(slf, eng) ==
    IF slf.m_initialized THEN Out(slf, PL_cleanup(eng), VNil, "ok", <<>>)
    ELSE Out(slf, eng, VNil, "ok", <<>>)

\* cleanup that also empties m_last_error.
cleanup_clearing_error(slf, eng) ==
    IF slf.m_initialized
    THEN Out([slf EXCEPT !.m_initialized = FALSE, !.m_last_error = <<>>],
             PL_cleanup(eng), VNil, "ok", <<>>)
    ELSE Out(slf, eng, VNil, "ok", <<>>)

cleanup(slf, eng) ==
    IF slf.m_initialized
    THEN Out([slf EXCEPT !.m_initialized = FALSE], PL_cleanup(eng), VNil, "ok", <<>>)
    ELSE Out(slf, eng, VNil, "ok", <<>>)

is_initialized(slf) == slf.m_initialized

get_last_error(slf) == slf.m_last_error

\* The res:// and user:// prefixes are not modelled: the name is the path.
consult_file(slf, eng, p_filename, ch) ==
    IF ~slf.m_initialized THEN Out(slf, eng, VBool(FALSE), "NotInitialized", <<>>)
    ELSE IF Len(p_filename) = 0
    THEN Failed(slf, eng, <<"Empty filename">>, VBool(FALSE), "EmptyInput")
    ELSE IF VStr(p_filename) \in ch.fails
    THEN Failed(slf, Log(eng, "PL_put_atom_chars"),
                <<"Failed to convert filename to Prolog atom">>,
                VBool(FALSE), "ConversionFailure")
    ELSE BoolOut(RunQuery(slf, Log(eng, "PL_put_atom_chars"), "consult",
                          AtomTerm(p_filename), <<"Consult">>, ch))

consult_string(slf, eng, p_prolog_code, ch) ==
    IF ~slf.m_initialized THEN Out(slf, eng, VBool(FALSE), "NotInitialized", <<>>)
    ELSE IF Len(p_prolog_code) = 0
    THEN Failed(slf, eng, <<"Empty Prolog code">>, VBool(FALSE), "EmptyInput")
    ELSE IF VStr(p_prolog_code) \in ch.fails
    THEN Failed(slf, Log(eng, "PL_put_string_chars"),
                <<"Failed to convert code to Prolog string">>,
                VBool(FALSE), "ConversionFailure")
    ELSE IF ~ch.put_ok
    THEN Failed(slf, Log(Log(eng, "PL_put_string_chars"), "PL_put_term"),
                <<"Failed to prepare arguments">>, VBool(FALSE), "ConversionFailure")
    ELSE BoolOut(RunQuery(slf, Log(Log(eng, "PL_put_string_chars"), "PL_put_term"),
                          "load_program_from_string",
                          StringTerm(p_prolog_code), <<"Consult string">>, ch))

\* query from PL_chars_to_term on: read is what it gives for goal.
QueryTerm(slf, eng, goal, read, ch) ==
    IF ~read.ok
    THEN Failed(slf, Log(eng, "PL_chars_to_term"), <<"Failed to parse query: ">> \o goal,
                VBool(FALSE), "ParseFailure")
    ELSE BoolOut(RunQuery(slf, Log(eng, "PL_chars_to_term"), "call", read.term,
                          <<"Query">>, ch))

\* query from the goal build_query gives on.
QueryGoal(slf, eng, goal, ch) ==
    IF Len(goal) = 0
    THEN Failed(slf, eng, <<"Empty query">>, VBool(FALSE), "EmptyInput")
    ELSE QueryTerm(slf, eng, goal, PL_chars_to_term(goal), ch)

query(slf, eng, p_predicate, p_args, ch) ==
    IF ~slf.m_initialized THEN Out(slf, eng, VBool(FALSE), "NotInitialized", <<>>)
    ELSE QueryGoal(slf, eng, build_query(p_predicate, p_args), ch)

RECURSIVE ExtractLoop(_, _, _, _)

\* ExtractLoop that stores every value under the first name.
ExtractLoopFirstName(p_term, p_variables, i, result) ==
    IF i > Len(p_variables) \/ i > Len(TermArgs(p_term)) THEN result
    ELSE ExtractLoop(p_term, p_variables, i + 1,
                     DictPut(result, p_variables[1].s,
                             term_to_variant(TermArgs(p_term)[i])))

\* for (i = 0; i < p_variables.size() && i < arity; i++)
\*     result[p_variables[i]] = term_to_variant(arg i + 1 of p_term)
ExtractLoop(p_term, p_variables, i, result) ==
    IF i > Len(p_variables) \/ i > Len(TermArgs(p_term)) THEN result
    ELSE ExtractLoop(p_term, p_variables, i + 1,
                     DictPut(result, p_variables[i].s,
                             term_to_variant(TermArgs(p_term)[i])))

extract_variables(p_term, p_variables) ==
    IF ~IsCallable(p_term) THEN {}
    ELSE ExtractLoop(p_term, p_variables, 1, {})

\* ExtractVars that takes every non-empty list of Strings for names.
ExtractVarsAnyString(p_args) ==
    /\ Len(p_args) > 0
    /\ \A i \in 1..Len(p_args) : p_args[i].k = "str"

\* bool extract_vars of query_all and query_one: args is not empty and every
\* element is a String starting with an uppercase letter or '_'.
ExtractVars(p_args) ==
    /\ Len(p_args) > 0
    /\ \A i \in 1..Len(p_args) :
          /\ p_args[i].k = "str"
          /\ Len(p_args[i].s) > 0
          /\ (IsUpperInitial(p_args[i].s[1]) \/ IsUnderscoreInitial(p_args[i].s[1]))

\* One solution as query_all and query_one give it.
ConvertSolution(p_term, extract_vars, p_args) ==
    IF extract_vars THEN VDict(extract_variables(p_term, p_args))
    ELSE term_to_variant(p_term)

RECURSIVE ConvertSolutionsBackwards(_, _, _)
\* ConvertSolutions with each solution pushed to the front of results.
ConvertSolutionsBackwards(tail, extract_vars, p_args) ==
    IF ~PL_get_list(tail) THEN <<>>
    ELSE ConvertSolutionsBackwards(tail.tail, extract_vars, p_args)
            \o <<ConvertSolution(tail.head, extract_vars, p_args)>>

RECURSIVE ConvertSolutions(_, _, _)
\* while (PL_get_list(tail, head, tail)) results.push_back(...)
ConvertSolutions(tail, extract_vars, p_args) ==
    IF ~PL_get_list(tail) THEN <<>>
    ELSE <<ConvertSolution(tail.head, extract_vars, p_args)>>
            \o ConvertSolutions(tail.tail, extract_vars, p_args)

\* query_all after the step r of its query.
QueryAllResult(r, p_args) ==
    IF r.returned THEN Out(r.self, r.eng, VArr(<<>>), QueryWhy(r), r.printed)
    ELSE IF r.result # 0 /\ Len(TermArgs(r.term)) >= 3
    THEN Out(r.self, PL_close_query(Log(r.eng, "read")),
             VArr(ConvertSolutions(TermArgs(r.term)[3], ExtractVars(p_args), p_args)),
             QueryWhy(r), <<>>)
    ELSE Out(r.self, PL_close_query(r.eng), VArr(<<>>), QueryWhy(r), <<>>)

\* query_all from PL_chars_to_term on: read is what it gives for findall_goal.
QueryAllTerm(slf, eng, goal, read, p_args, ch) ==
    IF ~read.ok
    THEN Failed(slf, Log(eng, "PL_chars_to_term"), <<"Failed to parse query: ">> \o goal,
                VArr(<<>>), "ParseFailure")
    ELSE QueryAllResult(RunQuery(slf, Log(eng, "PL_chars_to_term"), "call", read.term,
                                 <<"Query all">>, ch),
                        p_args)

\* query_all from the goal build_query gives on.
QueryAllGoal(slf, eng, goal, p_args, ch) ==
    IF Len(goal) = 0
    THEN Failed(slf, eng, <<"Empty query">>, VArr(<<>>), "EmptyInput")
    ELSE QueryAllTerm(slf, eng, goal,
                      PL_chars_to_term(<<"findall", "(">> \o goal \o <<",">> \o goal
                                          \o <<",", "PrologotResults__", ")">>),
                      p_args, ch)

query_all(slf, eng, p_predicate, p_args, ch) ==
    IF ~slf.m_initialized THEN Out(slf, eng, VArr(<<>>), "NotInitialized", <<>>)
    ELSE QueryAllGoal(slf, eng, build_query(p_predicate, p_args), p_args, ch)

\* QueryOneResult closing the query before it reads the solution.
QueryOneResultReadAfterClose(r, p_args) ==
    IF r.returned THEN Out(r.self, r.eng, VNil, QueryWhy(r), r.printed)
    ELSE IF r.result # 0
    THEN Out(r.self, Log(PL_close_query(r.eng), "read"),
             ConvertSolution(r.term, ExtractVars(p_args), p_args), QueryWhy(r), <<>>)
    ELSE Out(r.self, PL_close_query(r.eng), VNil, QueryWhy(r), <<>>)

\* query_one after the step r of its query.
QueryOneResult(r, p_args) ==
    IF r.returned THEN Out(r.self, r.eng, VNil, QueryWhy(r), r.printed)
    ELSE IF r.result # 0
    THEN Out(r.self, PL_close_query(Log(r.eng, "read")),
             ConvertSolution(r.term, ExtractVars(p_args), p_args), QueryWhy(r), <<>>)
    ELSE Out(r.self, PL_close_query(r.eng), VNil, QueryWhy(r), <<>>)

\* query_one from PL_chars_to_term on: read is what it gives for goal.
QueryOneTerm(slf, eng, goal, read, p_args, ch) ==
    IF ~read.ok
    THEN Failed(slf, Log(eng, "PL_chars_to_term"), <<"Failed to parse query: ">> \o goal,
                VNil, "ParseFailure")
    ELSE QueryOneResult(RunQuery(slf, Log(eng, "PL_chars_to_term"), "call", read.term,
                                 <<"Query one">>, ch),
                        p_args)

\* query_one from the goal build_query gives on.
QueryOneGoal(slf, eng, goal, p_args, ch) ==
    IF Len(goal) = 0 THEN Failed(slf, eng, <<"Empty query">>, VNil, "EmptyInput")
    ELSE QueryOneTerm(slf, eng, goal, PL_chars_to_term(goal), p_args, ch)

query_one(slf, eng, p_predicate, p_args, ch) ==
    IF ~slf.m_initialized THEN Out(slf, eng, VNil, "NotInitialized", <<>>)
    ELSE QueryOneGoal(slf, eng, build_query(p_predicate, p_args), p_args, ch)

\* add_fact and retract_fact from PL_chars_to_term on: read is what it gives
\* for fact, pred the predicate that takes the term ("assert" or "retract").
FactTerm(slf, eng, fact, read, pred, p_context, ch) ==
    IF ~read.ok
    THEN Failed(slf, Log(eng, "PL_chars_to_term"), <<"Failed to parse fact: ">> \o fact,
                VBool(FALSE), "ParseFailure")
    ELSE BoolOut(RunQuery(slf, Log(eng, "PL_chars_to_term"), pred, read.term,
                          p_context, ch))

add_fact(slf, eng, p_fact, ch) ==
    IF ~slf.m_initialized THEN Out(slf, eng, VBool(FALSE), "NotInitialized", <<>>)
    ELSE IF Len(p_fact) = 0
    THEN Failed(slf, eng, <<"Empty fact">>, VBool(FALSE), "EmptyInput")
    ELSE FactTerm(slf, eng, StripTrailingPeriod(p_fact),
                  PL_chars_to_term(StripTrailingPeriod(p_fact)),
                  "assert", <<"Assert fact">>, ch)

retract_fact(slf, eng, p_fact, ch) ==
    IF ~slf.m_initialized THEN Out(slf, eng, VBool(FALSE), "NotInitialized", <<>>)
    ELSE IF Len(p_fact) = 0
    THEN Failed(slf, eng, <<"Empty fact">>, VBool(FALSE), "EmptyInput")
    ELSE FactTerm(slf, eng, StripTrailingPeriod(p_fact),
                  PL_chars_to_term(StripTrailingPeriod(p_fact)),
                  "retract", <<"Retract fact">>, ch)

retract_all(slf, eng, p_functor, ch) ==
    IF ~slf.m_initialized THEN Out(slf, eng, VBool(FALSE), "NotInitialized", <<>>)
    ELSE query(slf, eng,
               <<"retractall", "(">> \o StripTrailingPeriod(p_functor) \o <<")">>,
               <<>>, ch)

RECURSIVE PutArgs(_, _, _, _)

\* if (!PL_put_term(t + i, arg)) return ...; for the term arg of argument i.
\* PL_put_term from term 0 has no defined result: it is refused, or reports
\* success and leaves the slot an unbound variable (ch.put_bad).
PutArg(p_args, i, done, ch, arg) ==
    IF arg.t # "invalid" THEN PutArgs(p_args, i + 1, Append(done, arg), ch)
    ELSE IF ch.put_bad
    THEN PutArgs(p_args, i + 1, Append(done, VarTerm(<<"_", 0 - i>>)), ch)
    ELSE [ok |-> FALSE, args |-> done, at |-> i]

\* for (i = 0; i < p_args.size(); i++) { arg = variant_to_term(p_args[i]); ... }
PutArgs(p_args, i, done, ch) ==
    IF i > Len(p_args) THEN [ok |-> TRUE, args |-> done, at |-> 0]
    ELSE PutArg(p_args, i, done, ch, variant_to_term(p_args[i], ch.fails))

\* The argument loop in the engine's log: variant_to_term's result goes to
\* PL_put_term unchecked, so a conversion that gave term 0 shows as
\* PL_put_term given 0.
PutLog(eng, p_args, ch) ==
    IF \E i \in 1..Len(p_args) : variant_to_term(p_args[i], ch.fails).t = "invalid"
    THEN Log(eng, "PL_put_term(0)")
    ELSE eng

\* call_predicate after its argument loop.
CallPredicateGoal(slf, eng, p_predicate, put, ch) ==
    IF ~put.ok
    THEN Failed(slf, eng, <<"Failed to convert argument ", Digits[put.at]>>,
                VBool(FALSE), "ConversionFailure")
    ELSE IF ~ch.cons
    THEN Failed(slf, Log(eng, "PL_cons_functor_v"),
                <<"Failed to construct predicate term">>,
                VBool(FALSE), "ConversionFailure")
    ELSE BoolOut(RunQuery(slf, Log(eng, "PL_cons_functor_v"), "call",
                          PL_cons_functor_v(p_predicate, put.args),
                          <<"Call predicate">>, ch))

call_predicate(slf, eng, p_predicate, p_args, ch) ==
    IF ~slf.m_initialized THEN Out(slf, eng, VBool(FALSE), "NotInitialized", <<>>)
    ELSE IF Len(p_predicate) = 0
    THEN Failed(slf, eng, <<"Empty predicate name">>, VBool(FALSE), "EmptyInput")
    ELSE CallPredicateGoal(slf, PutLog(Log(eng, "variant_to_term"), p_args, ch),
                           p_predicate,
                           PutArgs(p_args, 1, <<>>, ch), ch)

\* CallFunctionResult reading the first argument of the goal.
CallFunctionResultFirstArg(r, arity) ==
    IF r.returned THEN Out(r.self, r.eng, VNil, QueryWhy(r), r.printed)
    ELSE IF r.result # 0
    THEN Out(r.self, PL_close_query(Log(r.eng, "read")),
             term_to_variant(TermArgs(r.term)[1]), QueryWhy(r), <<>>)
    ELSE Out(r.self, PL_close_query(r.eng), VNil, QueryWhy(r), <<>>)

\* call_function after the step r of its query: the result is the last
\* argument, at index arity.
CallFunctionResult(r, arity) ==
    IF r.returned THEN Out(r.self, r.eng, VNil, QueryWhy(r), r.printed)
    ELSE IF r.result # 0
    THEN Out(r.self, PL_close_query(Log(r.eng, "read")),
             term_to_variant(TermArgs(r.term)[arity]), QueryWhy(r), <<>>)
    ELSE Out(r.self, PL_close_query(r.eng), VNil, QueryWhy(r), <<>>)

\* call_function after its argument loop.
CallFunctionGoal(slf, eng, p_predicate, put, ch) ==
    IF ~put.ok
    THEN Failed(slf, eng, <<"Failed to convert argument ", Digits[put.at]>>,
                VNil, "ConversionFailure")
    ELSE IF ~ch.cons
    THEN Failed(slf, Log(eng, "PL_cons_functor_v"),
                <<"Failed to construct predicate term">>, VNil, "ConversionFailure")
    ELSE CallFunctionResult(
             RunQuery(slf, Log(eng, "PL_cons_functor_v"), "call",
                      PL_cons_functor_v(p_predicate,
                                        Append(put.args, VarTerm(<<"_", 0>>))),
                      <<"Call function">>, ch),
             Len(put.args) + 1)

call_function(slf, eng, p_predicate, p_args, ch) ==
    IF ~slf.m_initialized THEN Out(slf, eng, VNil, "NotInitialized", <<>>)
    ELSE IF Len(p_predicate) = 0
    THEN Failed(slf, eng, <<"Empty predicate name">>, VNil, "EmptyInput")
    ELSE CallFunctionGoal(slf, PutLog(Log(eng, "variant_to_term"), p_args, ch),
                          p_predicate,
                          PutArgs(p_args, 1, <<>>, ch), ch)

\* predicate_exists answering before it looks at m_initialized.
predicate_exists_unguarded(slf, eng, p_predicate, p_arity) ==
    Out(slf, Log(eng, "PL_predicate"), VBool(TRUE), "ok", <<>>)

\* PL_predicate(name, arity, NULL) gives a handle for every name and arity,
\* creating the (undefined) procedure when there is none: pred != 0.
predicate_exists(slf, eng, p_predicate, p_arity) ==
    IF ~slf.m_initialized THEN Out(slf, eng, VBool(FALSE), "NotInitialized", <<>>)
    ELSE Out(slf, Log(eng, "PL_predicate"), VBool(TRUE), "ok", <<>>)

list_predicates(slf, eng, ch) ==
    IF ~slf.m_initialized THEN Out(slf, eng, VArr(<<>>), "NotInitialized", <<>>)
    ELSE query_all(slf, eng,
                   <<"current_predicate", "(", "Name", "/", "Arity", ")">>, <<>>, ch)

\* ------------------------------------------------------ inputs of the model

\* Largest number of clauses in the knowledge base.
MaxClauses == 2

\* Largest number of add_fact calls counted for the paired fact.
MaxAdds == 3

LikesText == <<"likes", "(", "john", ",", "pizza", ")">>
OtherLikesText == <<"likes", "(", "mary", ",", "pizza", ")">>
ParentText == <<"parent", "(", "tom", ",", "bob", ")">>
OtherParentText == <<"parent", "(", "bob", ",", "ann", ")">>
NumberParentText == <<"parent", "(", "tom", ",", "7", ")">>
SameParentText == <<"parent", "(", "tom", ",", "tom", ")">>
LoneParentText == <<"parent", "(", "tom", ")">>
UndefinedText == <<"nonexistent", "(", "1", ")">>
UnclosedText == <<"parent", "(">>
VariableText == <<"X">>

\* The fact whose add_fact and retract_fact calls are counted.
PairedFact == CompoundTerm(<<"likes">>, <<AtomTerm(<<"john">>), AtomTerm(<<"pizza">>)>>)

InitOptions == {[on_error |-> "print", on_warning |-> "print"]}

InitChoices ==
    {NormalChoice,
     [NormalChoice EXCEPT !.init_ok = FALSE],
     [NormalChoice EXCEPT !.parse_fail_at = 3],
     [NormalChoice EXCEPT !.raise_at = 2],
     [NormalChoice EXCEPT !.raise_at = 2, !.status_ext = FALSE]}

\* For the methods that take text.
OpChoices ==
    {NormalChoice,
     [NormalChoice EXCEPT !.status_ext = FALSE],
     [NormalChoice EXCEPT !.render = FALSE]}

\* For the methods that build the goal from Variants.
CallChoices ==
    OpChoices \cup
    {[NormalChoice EXCEPT !.cons = FALSE],
     [NormalChoice EXCEPT !.fails = {VInt(7)}],
     [NormalChoice EXCEPT !.fails = {VInt(7)}, !.put_bad = TRUE]}

\* <<p_predicate, p_args>> pairs
GoalInputs ==
    {<<ParentText, <<>>>>, <<UndefinedText, <<>>>>, <<<<>>, <<>>>>,
     <<UnclosedText, <<>>>>}

SolutionInputs ==
    {<<<<"parent">>, <<VStr(<<"X">>), VStr(<<"Y">>)>>>>, <<UndefinedText, <<>>>>}

FactTexts == {ParentText, VariableText, UnclosedText, <<>>}

RetractTexts == {ParentText, VariableText}

PatternTexts == {<<"parent", "(", "_", ",", "_", ")">>, VariableText}

FileNames == {GraphFile, <<"missing.pl">>, <<>>}

CodeTexts == {ParentText \o <<".">>, UnclosedText, <<>>}

CallInputs ==
    {<<<<"parent">>, <<VStr(<<"tom">>), VStr(<<"bob">>)>>>>,
     <<<<"nonexistent">>, <<VInt(7)>>>>, <<<<>>, <<>>>>}

FunctionInputs ==
    {<<<<"parent">>, <<VStr(<<"tom">>)>>>>, <<<<"nonexistent">>, <<VInt(7)>>>>}

\* -------------------------------------------------------- the state machine
\* self and engine are the instance and the engine; last is the public call
\* made last: its name, its arguments, what it gave, and what was there
\* before it; hist is what the claims about sequences of calls need:
\*   effective   the last lifecycle call that was not a no-op,
\*   counting    a run of add_fact / retract_fact calls on PairedFact is
\*               being counted, begun on a knowledge base without it,
\*   adds, retracts   the add_fact calls and the successful retract_fact
\*               calls of that run.

NoCall ==
    [op |-> "none", text |-> <<>>, args |-> <<>>, ret |-> VNil, why |-> "ok",
     printed |-> <<>>, was_initialized |-> FALSE, kb_before |-> <<>>,
     engine_same |-> TRUE, self_same |-> TRUE]

NoHistory ==
    [effective |-> "none", counting |-> FALSE, adds |-> 0, retracts |-> 0]

\* The engine as an operation finds it: the log of the calls starts empty.
Fresh(eng) == [eng EXCEPT !.log = <<>>]

\* How many clauses of kb are the paired fact.
PairedCount(kb) == Len(SelectSeq(kb, LAMBDA f : f = PairedFact))

IsPairedText(text) ==
    PL_chars_to_term(StripTrailingPeriod(text)) = [ok |-> TRUE, term |-> PairedFact]

\* hist with the run of counted calls begun anew where the knowledge base is
\* without the paired fact and no count stands against that, carried on
\* where it is being counted, and dropped otherwise.
Counted(eng, effective, counting, adds, retracts) ==
    IF eng.running /\ PairedCount(eng.kb) = 0 /\ (~counting \/ adds = retracts)
    THEN [effective |-> effective, counting |-> TRUE, adds |-> 0, retracts |-> 0]
    ELSE IF counting
    THEN [effective |-> effective, counting |-> TRUE, adds |-> adds,
          retracts |-> retracts]
    ELSE [effective |-> effective, counting |-> FALSE, adds |-> 0, retracts |-> 0]

\* hist after the call op that gave out; paired says the call is add_fact or
\* retract_fact of the paired fact.  Any other call that changes how many
\* clauses match the paired fact ends the run being counted.
Tracked(op, out, paired) ==
    Counted(out.eng,
            IF op = "initialize" /\ ~self.m_initialized
            THEN (IF out.ret = VBool(TRUE) THEN "initialize" ELSE "failed initialize")
            ELSE IF op = "cleanup" /\ self.m_initialized THEN "cleanup"
            ELSE hist.effective,
            /\ hist.counting
            /\ out.eng.running
            /\ (paired \/ PairedCount(out.eng.kb) = PairedCount(engine.kb)),
            IF paired /\ op = "add_fact" THEN hist.adds + 1 ELSE hist.adds,
            IF paired /\ op = "retract_fact" /\ out.ret = VBool(TRUE)
            THEN hist.retracts + 1 ELSE hist.retracts)

\* hist after the call op(text) that gave out.
Track(op, text, out) ==
    Tracked(op, out, op \in {"add_fact", "retract_fact"} /\ IsPairedText(text))

\* The instances of one process.  The specifications of one instance have
\* self alone, constructed, with m_singleton pointing at it; the other
\* objects are for the specification with several instances, where each
\* holds its members in obj while it is alive.
Objects == {"a", "b", "c"}

\* Prologot* Prologot::m_singleton = nullptr;
nullptr == "nullptr"

NoObject == [alive |-> FALSE, obj |-> NewInstance]

OnlySelf == [o \in Objects |-> NoObject]

\* The step of the public call op(text, args) that gives out.
Apply(op, text, args, out) ==
    /\ Len(out.eng.kb) <= MaxClauses
    /\ self' = out.self
    /\ engine' = out.eng
    /\ last' = [op |-> op, text |-> text, args |-> args, ret |-> out.ret,
                why |-> out.why, printed |-> out.printed,
                was_initialized |-> self.m_initialized,
                kb_before |-> engine.kb,
                engine_same |-> (Fresh(out.eng) = Fresh(engine)),
                self_same |-> (out.self = self)]
    /\ hist' = Track(op, text, out)
    /\ hist'.adds <= MaxAdds
    /\ UNCHANGED <<conv, objects, m_singleton>>

\* ------------------------------------------- the values that are converted

\* Scalar values of every kind: Null, Bool, Int64, Float64, String.
Leaves == {VNil, VBool(TRUE), VInt(7), VFloat(15), VStr(<<"bar">>)}

\* The functor of the compound representations nested inside other values.
FunctorNames == {<<"foo">>}

\* {"functor": f, "args": a}
CompoundRep(f, a) == VDict({<<FunctorKey, VStr(f)>>, <<ArgsKey, VArr(a)>>})

RECURSIVE ValuesOfSize(_)
RECURSIVE SeqsOfSize(_)

\* The sequences of values with m nodes in all.
SeqsOfSize(m) ==
    IF m = 0 THEN {<<>>}
    ELSE UNION {{<<x>> \o s : x \in ValuesOfSize(n), s \in SeqsOfSize(m - n)} :
                n \in 1..m}

\* The values with exactly n nodes: scalars, arrays, compound representations.
ValuesOfSize(n) ==
    (IF n = 1 THEN Leaves ELSE {})
        \cup {VArr(a) : a \in SeqsOfSize(n - 1)}
        \cup {CompoundRep(f, a) : f \in FunctorNames, a \in SeqsOfSize(n - 1)}

\* Dictionaries of the other shapes: a key missing, a key added, and the
\* list constructor as functor.
OddDicts ==
    LET argSeqs == UNION {SeqsOfSize(m) : m \in 0..2}
        f == <<FunctorKey, VStr(<<"foo">>)>>
        o == <<OtherKey, VInt(7)>>
    IN  {VDict({}), VDict({f}), VDict({o}), VDict({f, o})}
            \cup {VDict({<<ArgsKey, VArr(a)>>}) : a \in argSeqs}
            \cup {VDict({<<ArgsKey, VArr(a)>>, o}) : a \in argSeqs}
            \cup {VDict({f, <<ArgsKey, VArr(a)>>, o}) : a \in argSeqs}
            \cup {CompoundRep(ListFunctorName, a) : a \in argSeqs}

Values == UNION {ValuesOfSize(n) : n \in 1..MaxSize} \cup OddDicts

\* What the engine may refuse during one conversion: nothing, one scalar, or
\* the atom of the empty dictionary.
FailChoices == {{}, {VInt(7)}, {VDict({})}}

\* --------------------------------------------- specification: conversions

ConvIdle == [stage |-> "idle", v |-> VNil, fails |-> {}, term |-> InvalidTerm,
             back |-> VNil]

ConvInit ==
    /\ self = NewInstance /\ engine = EngineDown /\ last = NoCall /\ hist = NoHistory
    /\ objects = OnlySelf /\ m_singleton = "self"
    /\ \E v \in Values, fails \in FailChoices :
          conv = [stage |-> "value", v |-> v, fails |-> fails,
                  term |-> InvalidTerm, back |-> VNil]

\* term_t t = variant_to_term(v)
ToTerm ==
    /\ conv.stage = "value"
    /\ conv' = [conv EXCEPT !.stage = "term",
                            !.term = variant_to_term(conv.v, conv.fails)]
    /\ UNCHANGED <<self, engine, last, hist, objects, m_singleton>>

\* Variant back = term_to_variant(t), for a valid t
ToVariant ==
    /\ conv.stage = "term"
    /\ conv.term.t # "invalid"
    /\ conv' = [conv EXCEPT !.stage = "back", !.back = term_to_variant(conv.term)]
    /\ UNCHANGED <<self, engine, last, hist, objects, m_singleton>>

ConvNext == ToTerm \/ ToVariant

SpecConv == ConvInit /\ [][ConvNext]_vars

Init ==
    /\ self = NewInstance
    /\ engine = EngineDown
    /\ last = NoCall
    /\ hist = NoHistory
    /\ conv = ConvIdle
    /\ objects = OnlySelf
    /\ m_singleton = "self"

Initialize ==
    \E p_options \in InitOptions, ch \in InitChoices :
        Apply("initialize", <<>>, <<>>, initialize(self, Fresh(engine), p_options, ch))

Cleanup == Apply("cleanup", <<>>, <<>>, cleanup(self, Fresh(engine)))

IsInitialized ==
    Apply("is_initialized", <<>>, <<>>,
          Out(self, Fresh(engine), VBool(is_initialized(self)), "ok", <<>>))

GetLastError ==
    Apply("get_last_error", <<>>, <<>>,
          Out(self, Fresh(engine), VStr(get_last_error(self)), "ok", <<>>))

ConsultFile ==
    \E p_filename \in FileNames, ch \in OpChoices :
        Apply("consult_file", p_filename, <<>>,
              consult_file(self, Fresh(engine), p_filename, ch))

ConsultString ==
    \E p_prolog_code \in CodeTexts,
       ch \in OpChoices \cup {[NormalChoice EXCEPT !.put_ok = FALSE]} :
        Apply("consult_string", p_prolog_code, <<>>,
              consult_string(self, Fresh(engine), p_prolog_code, ch))

Query ==
    \E in \in GoalInputs, ch \in OpChoices :
        Apply("query", in[1], in[2], query(self, Fresh(engine), in[1], in[2], ch))

QueryAll ==
    \E in \in SolutionInputs, ch \in OpChoices :
        Apply("query_all", in[1], in[2], query_all(self, Fresh(engine), in[1], in[2], ch))

QueryOne ==
    \E in \in SolutionInputs, ch \in OpChoices :
        Apply("query_one", in[1], in[2], query_one(self, Fresh(engine), in[1], in[2], ch))

AddFact ==
    \E p_fact \in FactTexts, ch \in OpChoices :
        Apply("add_fact", p_fact, <<>>, add_fact(self, Fresh(engine), p_fact, ch))

RetractFact ==
    \E p_fact \in RetractTexts, ch \in OpChoices :
        Apply("retract_fact", p_fact, <<>>, retract_fact(self, Fresh(engine), p_fact, ch))

RetractAll ==
    \E p_functor \in PatternTexts, ch \in OpChoices :
        Apply("retract_all", p_functor, <<>>,
              retract_all(self, Fresh(engine), p_functor, ch))

CallPredicate ==
    \E in \in CallInputs, ch \in CallChoices :
        Apply("call_predicate", in[1], in[2],
              call_predicate(self, Fresh(engine), in[1], in[2], ch))

CallFunction ==
    \E in \in FunctionInputs, ch \in CallChoices :
        Apply("call_function", in[1], in[2],
              call_function(self, Fresh(engine), in[1], in[2], ch))

PredicateExists ==
    Apply("predicate_exists", <<"parent">>, <<VInt(2)>>,
          predicate_exists(self, Fresh(engine), <<"parent">>, 2))

ListPredicates ==
    \E ch \in OpChoices :
        Apply("list_predicates", <<>>, <<>>, list_predicates(self, Fresh(engine), ch))

Next ==
    \/ Initialize \/ Cleanup \/ IsInitialized \/ GetLastError
    \/ ConsultFile \/ ConsultString
    \/ Query \/ QueryAll \/ QueryOne
    \/ AddFact \/ RetractFact \/ RetractAll
    \/ CallPredicate \/ CallFunction
    \/ PredicateExists \/ ListPredicates

Spec == Init /\ [][Next]_vars

\* ------------------------------ specification: add_fact and retract_fact

\* The facts added: the paired fact, with and without its full stop, and
\* another fact of the same procedure.
LikesFacts == {LikesText, LikesText \o <<".">>, OtherLikesText}

\* The clauses retracted: the same, and a pattern that matches both facts.
LikesClauses == LikesFacts \cup {<<"likes", "(", "X", ",", "pizza", ")">>}

LikesGoals == {LikesText, LikesText \o <<".">>, OtherLikesText}

FactsInitialize ==
    \E p_options \in InitOptions,
       ch \in {NormalChoice, [NormalChoice EXCEPT !.init_ok = FALSE]} :
        Apply("initialize", <<>>, <<>>, initialize(self, Fresh(engine), p_options, ch))

FactsCleanup == Apply("cleanup", <<>>, <<>>, cleanup(self, Fresh(engine)))

FactsAddFact ==
    \E p_fact \in LikesFacts, ch \in OpChoices :
        Apply("add_fact", p_fact, <<>>, add_fact(self, Fresh(engine), p_fact, ch))

FactsRetractFact ==
    \E p_fact \in LikesClauses, ch \in OpChoices :
        Apply("retract_fact", p_fact, <<>>, retract_fact(self, Fresh(engine), p_fact, ch))

FactsRetractAll ==
    \E ch \in OpChoices :
        Apply("retract_all", <<"likes", "(", "_", ",", "_", ")">>, <<>>,
              retract_all(self, Fresh(engine), <<"likes", "(", "_", ",", "_", ")">>, ch))

FactsQuery ==
    \E p_predicate \in LikesGoals, ch \in OpChoices :
        Apply("query", p_predicate, <<>>,
              query(self, Fresh(engine), p_predicate, <<>>, ch))

FactsNext ==
    \/ FactsInitialize \/ FactsCleanup
    \/ FactsAddFact \/ FactsRetractFact \/ FactsRetractAll
    \/ FactsQuery

SpecFacts == Init /\ [][FactsNext]_vars

\* ------------------------------------------- specification: query_all

\* The facts of parent/2 and parent/1 added.
ParentFacts == {ParentText, OtherParentText, NumberParentText, SameParentText,
                LoneParentText}

\* The lists of variable names passed as p_args.
NameLists ==
    {<<VStr(<<"X">>), VStr(<<"Y">>)>>, <<VStr(<<"X">>), VStr(<<"_">>)>>,
     <<VStr(<<"_">>), VStr(<<"_">>)>>, <<VStr(<<"X">>), VStr(<<"X">>)>>,
     <<VStr(<<"X">>), VStr(<<"_Who">>)>>, <<VStr(<<"X">>)>>}

SolutionsInitialize ==
    \E p_options \in InitOptions,
       ch \in {NormalChoice, [NormalChoice EXCEPT !.init_ok = FALSE]} :
        Apply("initialize", <<>>, <<>>, initialize(self, Fresh(engine), p_options, ch))

SolutionsAddFact ==
    \E p_fact \in ParentFacts :
        Apply("add_fact", p_fact, <<>>,
              add_fact(self, Fresh(engine), p_fact, NormalChoice))

SolutionsRetractFact ==
    \E p_fact \in ParentFacts :
        Apply("retract_fact", p_fact, <<>>,
              retract_fact(self, Fresh(engine), p_fact, NormalChoice))

SolutionsQueryAll ==
    \E p_args \in NameLists, ch \in OpChoices :
        Apply("query_all", <<"parent">>, p_args,
              query_all(self, Fresh(engine), <<"parent">>, p_args, ch))

SolutionsNext ==
    \/ SolutionsInitialize
    \/ SolutionsAddFact \/ SolutionsRetractFact
    \/ SolutionsQueryAll

SpecQueryAll == Init /\ [][SolutionsNext]_vars

\* ------------------------- specification: query_one and query_all by args

\* <<p_predicate, p_args>> pairs: a full goal without args, variable names,
\* a value with a name, a name with a number, an empty String, a lower-case
\* String, "_" with a name.
ShapeInputs ==
    {<<<<"parent", "(", "X", ",", "Y", ")">>, <<>>>>,
     <<<<"parent">>, <<VStr(<<"X">>), VStr(<<"Y">>)>>>>,
     <<<<"parent">>, <<VStr(<<"tom">>), VStr(<<"X">>)>>>>,
     <<<<"parent">>, <<VStr(<<"X">>), VInt(7)>>>>,
     <<<<"parent">>, <<VStr(<<>>)>>>>,
     <<<<"parent">>, <<VStr(<<"tom">>)>>>>,
     <<<<"parent">>, <<VStr(<<"_">>), VStr(<<"Y">>)>>>>,
     <<<<"nonexistent">>, <<VStr(<<"tom">>), VStr(<<"X">>)>>>>}

\* The facts added: three of parent/2, one of parent/1.
ShapeFacts == {ParentText, OtherParentText, NumberParentText, LoneParentText}

ShapesAddFact ==
    \E p_fact \in ShapeFacts :
        Apply("add_fact", p_fact, <<>>,
              add_fact(self, Fresh(engine), p_fact, NormalChoice))

ShapesQueryAll ==
    \E in \in ShapeInputs, ch \in OpChoices :
        Apply("query_all", in[1], in[2],
              query_all(self, Fresh(engine), in[1], in[2], ch))

ShapesQueryOne ==
    \E in \in ShapeInputs, ch \in OpChoices :
        Apply("query_one", in[1], in[2],
              query_one(self, Fresh(engine), in[1], in[2], ch))

ShapesNext ==
    \/ SolutionsInitialize
    \/ ShapesAddFact
    \/ ShapesQueryAll \/ ShapesQueryOne

SpecShapes == Init /\ [][ShapesNext]_vars

\* ------------------------------------ specification: trailing periods

RECURSIVE Dotted(_, _)
\* text followed by n periods.
Dotted(text, n) == IF n = 0 THEN text ELSE Dotted(text, n - 1) \o <<".">>

\* How many periods follow a text: none to three.
PeriodCounts == 0..3

\* Texts that do not end in a period: facts, goals, patterns, and the
\* empty text.
FactStems == {ParentText, <<>>}
GoalStems == {ParentText, <<"parent", "(", "X", ",", "Y", ")">>, <<>>}
PatternStems == {<<"parent", "(", "_", ",", "_", ")">>, <<>>}

PeriodsAddFact ==
    \E stem \in FactStems, n \in PeriodCounts :
        Apply("add_fact", Dotted(stem, n), <<>>,
              add_fact(self, Fresh(engine), Dotted(stem, n), NormalChoice))

PeriodsRetractFact ==
    \E stem \in FactStems, n \in PeriodCounts :
        Apply("retract_fact", Dotted(stem, n), <<>>,
              retract_fact(self, Fresh(engine), Dotted(stem, n), NormalChoice))

PeriodsRetractAll ==
    \E stem \in PatternStems, n \in PeriodCounts :
        Apply("retract_all", Dotted(stem, n), <<>>,
              retract_all(self, Fresh(engine), Dotted(stem, n), NormalChoice))

PeriodsQuery ==
    \E stem \in GoalStems, n \in PeriodCounts :
        Apply("query", Dotted(stem, n), <<>>,
              query(self, Fresh(engine), Dotted(stem, n), <<>>, NormalChoice))

PeriodsQueryOne ==
    \E stem \in GoalStems, n \in PeriodCounts :
        Apply("query_one", Dotted(stem, n), <<>>,
              query_one(self, Fresh(engine), Dotted(stem, n), <<>>, NormalChoice))

PeriodsQueryAll ==
    \E stem \in GoalStems, n \in PeriodCounts :
        Apply("query_all", Dotted(stem, n), <<>>,
              query_all(self, Fresh(engine), Dotted(stem, n), <<>>, NormalChoice))

PeriodsNext ==
    \/ SolutionsInitialize
    \/ PeriodsAddFact \/ PeriodsRetractFact \/ PeriodsRetractAll
    \/ PeriodsQuery \/ PeriodsQueryOne \/ PeriodsQueryAll

SpecPeriods == Init /\ [][PeriodsNext]_vars

\* ------------------------------------ specification: the on-error option

\* p_options with each value "on error" can take (Prologot.cpp:125-135).
ErrorOptions ==
    {[on_error |-> e, on_warning |-> "print"] : e \in {"print", "halt", "status"}}

ErrorsInitialize ==
    \E p_options \in ErrorOptions, ch \in InitChoices :
        Apply("initialize", <<>>, <<>>, initialize(self, Fresh(engine), p_options, ch))

ErrorsNext == ErrorsInitialize \/ Cleanup \/ Query \/ AddFact \/ GetLastError

SpecErrors == Init /\ [][ErrorsNext]_vars

\* ------------------------------ specification: predicates called by name

\* <<p_predicate, p_args>> pairs
NamedCalls ==
    {<<<<"parent">>, <<VStr(<<"tom">>), VStr(<<"bob">>)>>>>,
     <<<<"parent">>, <<VStr(<<"tom">>), VInt(7)>>>>,
     <<<<"parent">>, <<VStr(<<"tom">>)>>>>,
     <<<<"parent">>, <<VStr(<<"bob">>)>>>>,
     <<<<"parent">>, <<>>>>,
     <<<<"nonexistent">>, <<VStr(<<"tom">>)>>>>}

CallsCallPredicate ==
    \E in \in NamedCalls, ch \in OpChoices :
        Apply("call_predicate", in[1], in[2],
              call_predicate(self, Fresh(engine), in[1], in[2], ch))

CallsCallFunction ==
    \E in \in NamedCalls, ch \in OpChoices :
        Apply("call_function", in[1], in[2],
              call_function(self, Fresh(engine), in[1], in[2], ch))

CallsNext ==
    SolutionsInitialize \/ ShapesAddFact \/ CallsCallPredicate \/ CallsCallFunction

SpecCalls == Init /\ [][CallsNext]_vars

\* ----------------------------- specification: several instances, one engine

\* The process starts with no instance and the static m_singleton null.
ProcessInit ==
    /\ self = NewInstance /\ engine = EngineDown /\ last = NoCall
    /\ hist = NoHistory /\ conv = ConvIdle
    /\ objects = OnlySelf
    /\ m_singleton = nullptr

\* Prologot::Prologot()
Construct ==
    \E o \in Objects :
        /\ ~objects[o].alive
        /\ objects' = [objects EXCEPT ![o] = [alive |-> TRUE, obj |-> NewInstance]]
        /\ m_singleton' = o
        /\ UNCHANGED <<self, engine, last, hist, conv>>

\* The object o after the call that gave out, alive or not.
Left(o, out, alive) ==
    /\ objects' = [objects EXCEPT ![o] = IF alive
                                         THEN [alive |-> TRUE, obj |-> out.self]
                                         ELSE NoObject]
    /\ engine' = out.eng

\* Prologot::~Prologot(): cleanup(); m_singleton = nullptr;
Destruct ==
    \E o \in Objects :
        /\ objects[o].alive
        /\ Left(o, cleanup(objects[o].obj, Fresh(engine)), FALSE)
        /\ m_singleton' = nullptr
        /\ UNCHANGED <<self, last, hist, conv>>

ObjectInitialize ==
    \E o \in Objects, p_options \in InitOptions,
       ch \in {NormalChoice, [NormalChoice EXCEPT !.init_ok = FALSE]} :
        /\ objects[o].alive
        /\ Left(o, initialize(objects[o].obj, Fresh(engine), p_options, ch), TRUE)
        /\ UNCHANGED <<self, last, hist, conv, m_singleton>>

ObjectCleanup ==
    \E o \in Objects :
        /\ objects[o].alive
        /\ Left(o, cleanup(objects[o].obj, Fresh(engine)), TRUE)
        /\ UNCHANGED <<self, last, hist, conv, m_singleton>>

ProcessNext == Construct \/ Destruct \/ ObjectInitialize \/ ObjectCleanup

SpecProcess == ProcessInit /\ [][ProcessNext]_vars

\* ------------------------------ specification: query against query_all

\* parent(tom, X), parent(X, Y)
GrandparentText ==
    <<"parent", "(", "tom", ",", "X", ")", ",", "parent", "(", "X", ",", "Y", ")">>

\* <<p_predicate, p_args>> pairs: goals as text, one of them a conjunction,
\* and goals built from a name and arguments.
AgreeInputs ==
    {<<ParentText, <<>>>>,
     <<<<"parent", "(", "X", ",", "Y", ")">>, <<>>>>,
     <<GrandparentText, <<>>>>,
     <<<<"parent">>, <<VStr(<<"bob">>), VStr(<<"X">>)>>>>,
     <<UndefinedText, <<>>>>}

AgreeQuery ==
    \E in \in AgreeInputs, ch \in OpChoices :
        Apply("query", in[1], in[2], query(self, Fresh(engine), in[1], in[2], ch))

AgreeQueryAll ==
    \E in \in AgreeInputs, ch \in OpChoices :
        Apply("query_all", in[1], in[2],
              query_all(self, Fresh(engine), in[1], in[2], ch))

AgreeNext == SolutionsInitialize \/ ShapesAddFact \/ AgreeQuery \/ AgreeQueryAll

SpecAgree == Init /\ [][AgreeNext]_vars

\* ------------------------------------------------- claims on conversions

\* The keys of a dictionary value.
Keys(v) == {p[1] : p \in v.d}

HasFunctorAndArgs(v) == DictHas(v.d, FunctorKey) /\ DictHas(v.d, ArgsKey)

RECURSIVE IsScalarOrList(_)
\* Null, Bool, Int64, Float64, String, or a sequence (nested) of such.
IsScalarOrList(v) ==
    \/ v.k \in {"nil", "bool", "int", "float", "str"}
    \/ v.k = "arr" /\ \A i \in 1..Len(v.a) : IsScalarOrList(v.a[i])

RECURSIVE IsNumberStringOrList(_)
\* Int64, Float64, String, or a sequence (nested) of such.
IsNumberStringOrList(v) ==
    \/ v.k \in {"int", "float", "str"}
    \/ v.k = "arr" /\ \A i \in 1..Len(v.a) : IsNumberStringOrList(v.a[i])

RECURSIVE IsFaithful(_)
\* Int64, Float64, String, sequences of faithful values, and compound
\* representations with at least one argument, all faithful, whose
\* functor/arity is not the list constructor '[|]'/2.
IsFaithful(v) ==
    \/ v.k \in {"int", "float", "str"}
    \/ v.k = "arr" /\ \A i \in 1..Len(v.a) : IsFaithful(v.a[i])
    \/ /\ v.k = "dict"
       /\ Keys(v) = {FunctorKey, ArgsKey}
       /\ LET f == DictGet(v.d, FunctorKey).s
              a == DictGet(v.d, ArgsKey).a
          IN  /\ Len(a) >= 1
              /\ ~(f = ListFunctorName /\ Len(a) = 2)
              /\ \A i \in 1..Len(a) : IsFaithful(a[i])

\* C6 as stated: every Null, Bool, Int64, Float64, String and sequence of
\* such comes back from term_to_variant(variant_to_term(v)) equal to v.
RoundTripAllScalarKinds ==
    (conv.stage = "back" /\ IsScalarOrList(conv.v)) => conv.back = conv.v

\* C6 amended: every Int64, Float64, String and (possibly empty or nested)
\* sequence of such comes back equal to itself, whenever the conversion to a
\* term succeeds; Null comes back as the String "[]" and Bool as the String
\* "true" or "false".
RoundTripNumbersStringsLists ==
    /\ (conv.stage = "back" /\ IsNumberStringOrList(conv.v)) => conv.back = conv.v
    /\ (conv.stage = "back" /\ conv.v = VNil) => conv.back = VStr(EmptyListName)
    /\ (conv.stage = "back" /\ conv.v = VBool(TRUE)) => conv.back = VStr(<<"true">>)

\* C6 witness: a nested two-element sequence has made the round trip.
RoundTripListWitness ==
    /\ conv.stage = "back"
    /\ conv.v = VArr(<<VInt(7), VArr(<<VStr(<<"bar">>)>>)>>)
    /\ conv.back = conv.v

\* C7 as stated: every mapping with exactly the keys functor and args, args
\* of any length including zero, comes back equal to itself.
CompoundRoundTripAnyLength ==
    (/\ conv.stage = "back"
     /\ conv.v.k = "dict"
     /\ Keys(conv.v) = {FunctorKey, ArgsKey}
     /\ \A i \in 1..Len(DictGet(conv.v.d, ArgsKey).a) :
            IsNumberStringOrList(DictGet(conv.v.d, ArgsKey).a[i]))
        => conv.back = conv.v

\* C7 amended: a mapping with exactly the keys functor and args comes back
\* equal to itself when args has at least one element, every element is
\* itself faithful, and functor/length is not '[|]'/2; with zero args it
\* comes back as the String functor, and '[|]' with two args as a sequence.
CompoundRoundTripNonEmpty ==
    /\ (conv.stage = "back" /\ conv.v.k = "dict" /\ IsFaithful(conv.v))
           => conv.back = conv.v
    /\ (conv.stage = "back" /\ conv.v.k = "dict" /\ HasFunctorAndArgs(conv.v)
           /\ Len(DictGet(conv.v.d, ArgsKey).a) = 0)
           => conv.back = VStr(DictGet(conv.v.d, FunctorKey).s)
    /\ (conv.stage = "back" /\ conv.v.k = "dict" /\ HasFunctorAndArgs(conv.v)
           /\ Len(DictGet(conv.v.d, ArgsKey).a) = 2
           /\ DictGet(conv.v.d, FunctorKey).s = ListFunctorName)
           => conv.back.k = "arr"

\* C7 witness: foo(7, [bar]) has made the round trip.
CompoundRoundTripWitness ==
    /\ conv.stage = "back"
    /\ conv.v = CompoundRep(<<"foo">>, <<VInt(7), VArr(<<VStr(<<"bar">>)>>)>>)
    /\ conv.back = conv.v

\* C8 as stated: a mapping whose keys are not exactly functor and args
\* converts to the atom [].
OnlyExactKeysBuildCompound ==
    (/\ conv.stage = "term"
     /\ conv.v.k = "dict"
     /\ Keys(conv.v) # {FunctorKey, ArgsKey}
     /\ conv.term.t # "invalid")
        => conv.term = AtomTerm(EmptyListName)

\* C8 amended: a mapping that lacks functor or args converts to the atom []
\* unless the engine refuses the atom; a mapping that has both keys, with or
\* without further keys, converts to the term built from functor and args.
BothKeysBuildCompound ==
    /\ (conv.stage = "term" /\ conv.v.k = "dict" /\ ~HasFunctorAndArgs(conv.v)
           /\ conv.v \notin conv.fails)
           => conv.term = AtomTerm(EmptyListName)
    /\ (conv.stage = "term" /\ conv.v.k = "dict" /\ HasFunctorAndArgs(conv.v)
           /\ conv.term.t # "invalid")
           => LET f == DictGet(conv.v.d, FunctorKey).s
                  n == Len(DictGet(conv.v.d, ArgsKey).a)
              IN  \/ n = 0 /\ conv.term = AtomTerm(f)
                  \/ conv.term.t = "list" /\ f = ListFunctorName /\ n = 2
                  \/ /\ conv.term.t = "compound"
                     /\ conv.term.name = f
                     /\ Len(conv.term.args) = n

\* C8 witness: a mapping with functor, args and a third key became foo(7).
ExtraKeyCompoundWitness ==
    /\ conv.stage = "term"
    /\ conv.v = VDict({<<FunctorKey, VStr(<<"foo">>)>>,
                       <<ArgsKey, VArr(<<VInt(7)>>)>>, <<OtherKey, VInt(7)>>})
    /\ conv.term = CompoundTerm(<<"foo">>, <<IntTerm(7)>>)

\* ------------------------------------------------- claims about the calls

\* The three calls of one query, in their order.
QueryProtocol == <<"PL_open_query", "PL_next_solution", "PL_close_query">>

\* The calls of the last operation that open, step or close a query.
QueryCalls ==
    SelectSeq(engine.log, LAMBDA c : c \in {QueryProtocol[1], QueryProtocol[2],
                                            QueryProtocol[3]})

\* The operations that run one query, and what each returns on failure.
BoolOps == {"consult_file", "consult_string", "query", "add_fact", "retract_fact",
            "retract_all", "call_predicate", "predicate_exists"}
ValueOps == {"query_one", "call_function"}
ListOps == {"query_all", "list_predicates"}
QueryingOps == (BoolOps \ {"predicate_exists"}) \cup ValueOps \cup ListOps

NeutralOf(op) ==
    CASE op \in BoolOps -> VBool(FALSE)
      [] op \in ValueOps -> VNil
      [] op \in ListOps -> VArr(<<>>)

\* C1: every operation that opens an engine query steps it exactly once and
\* closes it exactly once before it returns, whether the step found a
\* solution, found none or raised; initialize does so for each helper clause
\* it asserts; no operation returns with a query still open.
EveryQueryClosedOnce ==
    /\ engine.open = 0
    /\ Len(QueryCalls) % 3 = 0
    /\ \A i \in 1..Len(QueryCalls) : QueryCalls[i] = QueryProtocol[((i - 1) % 3) + 1]
    /\ (last.op \in QueryingOps /\ last.why \in {"ok", "NoSolution", "EngineException"}
            => QueryCalls = QueryProtocol)
    /\ (last.op \in QueryingOps => Len(QueryCalls) <= 3)
    /\ (last.op = "initialize" /\ ~last.was_initialized /\ last.ret = VBool(TRUE)
            => Len(QueryCalls) = 3 * Len(BootstrapHeads))
    /\ (last.op \notin QueryingOps \cup {"initialize"} => QueryCalls = <<>>)

\* C1 witness: query_all took its exception branch and closed its query.
ClosedAfterExceptionWitness ==
    /\ last.op = "query_all"
    /\ last.why = "EngineException"
    /\ \E i \in 1..Len(engine.log) : engine.log[i] = "PL_exception"
    /\ QueryCalls = QueryProtocol
    /\ engine.open = 0

\* The operations C2 names, and the context each gives its exception message.
RaisingOps == {"query", "query_one", "query_all", "add_fact", "retract_fact",
               "call_predicate", "call_function", "consult_file", "consult_string"}

ContextOf(op) ==
    CASE op \in {"query", "retract_all"} -> "Query"
      [] op = "query_one" -> "Query one"
      [] op \in {"query_all", "list_predicates"} -> "Query all"
      [] op = "add_fact" -> "Assert fact"
      [] op = "retract_fact" -> "Retract fact"
      [] op = "call_predicate" -> "Call predicate"
      [] op = "call_function" -> "Call function"
      [] op = "consult_file" -> "Consult"
      [] op = "consult_string" -> "Consult string"

\* C2: when the engine raises an exception while the goal of one of the nine
\* operations runs, the operation returns its neutral failure value and the
\* latest error is afterwards non-empty and is the rendered exception.
ExceptionIsRecorded ==
    last.op \in RaisingOps /\ last.why = "EngineException"
        => /\ last.ret = NeutralOf(last.op)
           /\ Len(self.m_last_error) >= 3
           /\ self.m_last_error[1] = ContextOf(last.op)
           /\ self.m_last_error[2] = " error: "

\* The first lexeme of the messages of each error kind.
EmptyInputMessages == {"Empty query", "Empty fact", "Empty filename",
                       "Empty Prolog code", "Empty predicate name"}
ParseFailureMessages == {"Failed to parse query: ", "Failed to parse fact: "}
ConversionFailureMessages == {"Failed to convert argument ",
                              "Failed to construct predicate term",
                              "Failed to convert filename to Prolog atom",
                              "Failed to convert code to Prolog string",
                              "Failed to prepare arguments"}

\* The latest error is a message for a failure of kind why of operation op.
Describes(err, op, why) ==
    /\ Len(err) > 0
    /\ CASE why = "EmptyInput" -> err[1] \in EmptyInputMessages
         [] why = "ParseFailure" -> err[1] \in ParseFailureMessages
         [] why = "ConversionFailure" -> err[1] \in ConversionFailureMessages
         [] why = "EngineException" ->
                Len(err) >= 3 /\ err[1] = ContextOf(op) /\ err[2] = " error: "
         [] why = "NotInitialized" ->
                /\ err[1] \notin EmptyInputMessages \cup ParseFailureMessages
                                    \cup ConversionFailureMessages
                /\ ~(Len(err) >= 2 /\ err[2] = " error: ")

\* C3: whenever a public operation returns its failure value because of
\* NotInitialized, EmptyInput, ParseFailure, EngineException or
\* ConversionFailure, the latest error is afterwards a message for that
\* failure.
EveryFailureIsRecorded ==
    last.op \in QueryingOps \cup {"predicate_exists"}
        /\ last.why \in {"NotInitialized", "EmptyInput", "ParseFailure",
                         "EngineException", "ConversionFailure"}
        => Describes(self.m_last_error, last.op, last.why)

\* C4: on an instance that is not initialized, every operation other than
\* initialize, cleanup, is_initialized and get_last_error returns its neutral
\* failure value, calls nothing in the engine and leaves the knowledge base
\* as it is.
NotInitializedIsInert ==
    ~last.was_initialized /\ last.op \in QueryingOps \cup {"predicate_exists"}
        => /\ last.ret = NeutralOf(last.op)
           /\ engine.log = <<>>
           /\ last.engine_same
           /\ engine.kb = last.kb_before

\* C4 witness: add_fact called after cleanup.
InertAfterCleanupWitness ==
    /\ last.op = "add_fact"
    /\ last.text = ParentText
    /\ ~last.was_initialized
    /\ hist.effective = "cleanup"
    /\ last.ret = VBool(FALSE)

\* C5: initialize() on an initialized instance returns true and neither
\* starts nor touches the engine; cleanup() on an instance that is not
\* initialized does nothing; and is_initialized() is true exactly when the
\* last lifecycle call that was not such a no-op was a successful initialize.
LifecycleIsIdempotent ==
    /\ (last.op = "initialize" /\ last.was_initialized
            => /\ last.ret = VBool(TRUE)
               /\ engine.log = <<>>
               /\ last.engine_same
               /\ last.self_same)
    /\ (last.op = "cleanup" /\ ~last.was_initialized
            => /\ engine.log = <<>>
               /\ last.engine_same
               /\ last.self_same)
    /\ (is_initialized(self) <=> hist.effective = "initialize")
    /\ (last.op = "is_initialized"
            => last.ret = VBool(hist.effective = "initialize"))

\* C5 witness: initialize() called on an initialized instance.
SecondInitializeWitness ==
    /\ last.op = "initialize"
    /\ last.was_initialized
    /\ last.ret = VBool(TRUE)
    /\ self.m_initialized

\* ---------------------------------- claims about add_fact and retract_fact

\* kb with its clause at index i taken away.
WithoutClause(kb, i) == SubSeq(kb, 1, i - 1) \o SubSeq(kb, i + 1, Len(kb))

\* C9: in a run of add_fact(F) and retract_fact(F) calls begun on a
\* knowledge base without F, query(F) is true exactly when more adds than
\* successful retracts have happened; retract_fact(F) returns true and takes
\* exactly one clause F away when there is one, and otherwise returns false
\* and leaves the knowledge base as it is.
AddRetractPairing ==
    /\ (hist.counting /\ last.op = "query" /\ IsPairedText(last.text)
            => last.ret = VBool(hist.adds > hist.retracts))
    /\ (last.op = "retract_fact" /\ IsPairedText(last.text) /\ last.was_initialized
            => IF PairedCount(last.kb_before) > 0
               THEN /\ last.ret = VBool(TRUE)
                    /\ \E i \in 1..Len(last.kb_before) :
                          /\ last.kb_before[i] = PairedFact
                          /\ engine.kb = WithoutClause(last.kb_before, i)
               ELSE /\ last.ret = VBool(FALSE)
                    /\ engine.kb = last.kb_before)

\* C9 witness: after two adds and one retract of F, query(F) is true.
TwoAddsOneRetractWitness ==
    /\ hist.counting
    /\ hist.adds = 2
    /\ hist.retracts = 1
    /\ last.op = "query"
    /\ last.text = LikesText
    /\ last.ret = VBool(TRUE)

\* ------------------------------------------------- claims about query_all

\* Every element of args is a String that reads as a variable name.
IsVariableNames(args) ==
    /\ Len(args) > 0
    /\ \A i \in 1..Len(args) :
          /\ args[i].k = "str"
          /\ Len(args[i].s) = 1
          /\ args[i].s[1] \in UpperInitial \cup UnderscoreInitial

\* The facts of kb that solve name(V1, ..., Vn), in assertion order: those
\* of that name and arity whose arguments are equal wherever one name other
\* than "_" stands twice.
SolvingFacts(kb, name, args) ==
    SelectSeq(kb, LAMBDA f :
        /\ f.t = "compound"
        /\ f.name = name
        /\ Len(f.args) = Len(args)
        /\ \A i, j \in 1..Len(args) :
              args[i] = args[j] /\ args[i].s # <<"_">> => f.args[i] = f.args[j])

\* The last call is query_all(name, [V1..Vn]) on an initialized instance,
\* every Vi a variable name.
NamedQueryAll ==
    /\ last.op = "query_all"
    /\ last.was_initialized
    /\ IsVariableNames(last.args)

\* C10 as stated: query_all(name, [V1..Vn]) returns one mapping per solution,
\* in assertion order, each binding every name Vi to the converted value of
\* argument i.
EveryNameBoundToArgument ==
    NamedQueryAll
        => last.ret =
              VArr([k \in 1..Len(SolvingFacts(last.kb_before, last.text, last.args)) |->
                      VDict({<<last.args[i].s,
                               term_to_variant(
                                   SolvingFacts(last.kb_before, last.text,
                                                last.args)[k].args[i])>> :
                             i \in 1..Len(last.args)})])

\* C10 amended: query_all(name, [V1..Vn]) returns one mapping per solution,
\* in assertion order, each binding every name Vi other than "_" to the
\* converted value of argument i, and "_" to Null.
NamedVariablesBoundToArgument ==
    NamedQueryAll
        => last.ret =
              VArr([k \in 1..Len(SolvingFacts(last.kb_before, last.text, last.args)) |->
                      VDict({<<last.args[i].s,
                               IF last.args[i].s = <<"_">> THEN VNil
                               ELSE term_to_variant(
                                        SolvingFacts(last.kb_before, last.text,
                                                     last.args)[k].args[i])>> :
                             i \in 1..Len(last.args)})])

\* C10 witness: query_all("parent", ["X", "_"]) over two facts gave two
\* mappings in assertion order, "_" bound to Null in each.
AnonymousNameWitness ==
    /\ last.op = "query_all"
    /\ last.args = <<VStr(<<"X">>), VStr(<<"_">>)>>
    /\ last.kb_before =
          <<CompoundTerm(<<"parent">>, <<AtomTerm(<<"tom">>), AtomTerm(<<"bob">>)>>),
            CompoundTerm(<<"parent">>, <<AtomTerm(<<"bob">>), AtomTerm(<<"ann">>)>>)>>
    /\ last.ret = VArr(<<VDict({<<<<"X">>, VStr(<<"tom">>)>>, <<<<"_">>, VNil>>}),
                         VDict({<<<<"X">>, VStr(<<"bob">>)>>, <<<<"_">>, VNil>>})>>)

\* ---------------------------------- claims about query_one and query_all

\* The names of args: its Strings that read as variable names.
NamesIn(args) ==
    {args[i].s : i \in {j \in 1..Len(args) :
                           /\ args[j].k = "str"
                           /\ Len(args[j].s) = 1
                           /\ args[j].s[1] \in UpperInitial \cup UnderscoreInitial}}

\* v is a mapping from exactly the names of args.
IsNameMapping(v, args) == v.k = "dict" /\ Keys(v) = NamesIn(args)

\* v is the conversion of a whole compound term.
IsWholeTerm(v) == v.k = "dict" /\ Keys(v) = {FunctorKey, ArgsKey}

\* The values the last call returned for its solutions: the elements of the
\* list of query_all, the value of query_one.
ReturnedSolutions ==
    IF last.op = "query_all" THEN {last.ret.a[i] : i \in 1..Len(last.ret.a)}
    ELSE {last.ret}

\* The last call is a query_one or query_all that found a solution.
SolvedQuery ==
    /\ last.op \in {"query_one", "query_all"}
    /\ last.was_initialized
    /\ last.why = "ok"

IsMixed(args) == NamesIn(args) # {} /\ ~IsVariableNames(args)

\* C12: when args mixes values with variable names, every mapping returned
\* by query_all and the mapping returned by query_one has exactly the
\* variable names of args as its keys.
MixedArgsGiveNameMappings ==
    SolvedQuery /\ IsMixed(last.args)
        => /\ ReturnedSolutions # {}
           /\ \A v \in ReturnedSolutions : IsNameMapping(v, last.args)

\* The term the goal of the last call reads as.
LastGoal == PL_chars_to_term(build_query(last.text, last.args)).term

\* The facts that solve the goal of the last call, in assertion order.
LastSolvers == SelectSeq(last.kb_before, LAMBDA f : Matches(LastGoal, f))

\* How often the last operation stepped a query.
StepsTaken == Len(SelectSeq(engine.log, LAMBDA c : c = "PL_next_solution"))

\* C13: query_one returns Null when the goal has no solution or raises; when
\* it has one it returns the value of the first solution only, a mapping of
\* every name to the argument at its place under named extraction and the
\* conversion of the solved goal otherwise, and steps the query once.
QueryOneFirstSolutionOnly ==
    last.op = "query_one" /\ last.was_initialized
        => /\ StepsTaken <= 1
           /\ (last.why \in {"NoSolution", "EngineException"} => last.ret = VNil)
           /\ (last.why \in {"ok", "NoSolution", "EngineException"}
                  => /\ StepsTaken = 1
                     /\ (last.why = "ok") = (LastSolvers # <<>>))
           /\ (last.why = "ok"
                  => last.ret =
                        IF IsVariableNames(last.args)
                        THEN VDict({<<last.args[i].s,
                                      term_to_variant(LastSolvers[1].args[
                                          CHOOSE j \in i..Len(last.args) :
                                              /\ last.args[j] = last.args[i]
                                              /\ \A k \in (j + 1)..Len(last.args) :
                                                    last.args[k] # last.args[i]])>> :
                                    i \in 1..Len(last.args)})
                        ELSE term_to_variant(LastSolvers[1]))

\* C13 witness: with two solutions, query_one("parent", ["X", "Y"]) gave
\* the first.
FirstOfTwoWitness ==
    /\ last.op = "query_one"
    /\ last.args = <<VStr(<<"X">>), VStr(<<"Y">>)>>
    /\ Len(LastSolvers) = 2
    /\ LastSolvers[1] # LastSolvers[2]
    /\ last.ret = VDict({<<<<"X">>, term_to_variant(LastSolvers[1].args[1])>>,
                         <<<<"Y">>, term_to_variant(LastSolvers[1].args[2])>>})
    /\ StepsTaken = 1

\* ------------------------------------------------ claims about retract_all

\* What the pattern of the last retract_all reads as.
LastPattern == PL_chars_to_term(StripTrailingPeriod(last.text))

\* The last call is retract_all on an initialized instance with a pattern
\* that reads as the head of a user procedure.
WellFormedRetractAll ==
    /\ last.op = "retract_all"
    /\ last.was_initialized
    /\ LastPattern.ok
    /\ LastPattern.term.t \in {"atom", "compound"}
    /\ <<LastPattern.term.name, Len(TermArgs(LastPattern.term))>> \notin Builtins

\* The clauses the pattern of the last retract_all matched.
PatternMatched == SelectSeq(last.kb_before, LAMBDA f : Matches(LastPattern.term, f))

RetractAllTrueIffMatched ==
    WellFormedRetractAll => last.ret = VBool(PatternMatched # <<>>)

\* ------------------------------------------- claims about trailing periods

\* The six operations that take a goal, fact or pattern as text.
TextOps == {"add_fact", "retract_fact", "retract_all", "query", "query_one",
            "query_all"}

\* The texts without a trailing period each of them is given here.
StemsOf(op) ==
    CASE op \in {"add_fact", "retract_fact"} -> FactStems
      [] op = "retract_all" -> PatternStems
      [] OTHER -> GoalStems

\* What op gives for text in the present state.
CallOnText(op, text) ==
    CASE op = "add_fact" -> add_fact(self, Fresh(engine), text, NormalChoice)
      [] op = "retract_fact" -> retract_fact(self, Fresh(engine), text, NormalChoice)
      [] op = "retract_all" -> retract_all(self, Fresh(engine), text, NormalChoice)
      [] op = "query" -> query(self, Fresh(engine), text, <<>>, NormalChoice)
      [] op = "query_one" -> query_one(self, Fresh(engine), text, <<>>, NormalChoice)
      [] op = "query_all" -> query_all(self, Fresh(engine), text, <<>>, NormalChoice)

\* Two calls with the same result and the same effect on the knowledge base.
SameOutcome(a, b) ==
    /\ a.ret = b.ret
    /\ a.eng.kb = b.eng.kb
    /\ a.eng.defined = b.eng.defined

\* The operations that hand the stripped text itself to the reader; the
\* other two put it inside a larger goal.
BareTextOps == {"add_fact", "retract_fact", "query", "query_one"}

\* C16 as stated: the six operations do the same for T and for T followed by
\* one period, and a text ending in two or more periods is a parse failure.
TwoPeriodsFailToParse ==
    self.m_initialized
        => \A op \in TextOps :
              \A stem \in StemsOf(op) :
                 /\ SameOutcome(CallOnText(op, stem),
                                CallOnText(op, Dotted(stem, 1)))
                 /\ \A n \in 2..3 :
                       CallOnText(op, Dotted(stem, n)).why = "ParseFailure"

\* C16 amended: the six operations do the same for T and for T followed by
\* one period.  Only one period is removed: with three or more periods, and
\* with two in query_all and retract_all, the text is a parse failure; with
\* exactly two periods add_fact, retract_fact, query and query_one hand the
\* reader T followed by one period, which it reads as T, and do the same as
\* for T.
OnePeriodRemoved ==
    self.m_initialized
        => \A op \in TextOps :
              \A stem \in StemsOf(op) :
                 /\ SameOutcome(CallOnText(op, stem),
                                CallOnText(op, Dotted(stem, 1)))
                 /\ CallOnText(op, Dotted(stem, 3)).why = "ParseFailure"
                 /\ IF op \in BareTextOps /\ stem # <<>>
                    THEN /\ SameOutcome(CallOnText(op, stem),
                                        CallOnText(op, Dotted(stem, 2)))
                         /\ CallOnText(op, Dotted(stem, 2)).why
                               = CallOnText(op, stem).why
                    ELSE CallOnText(op, Dotted(stem, 2)).why = "ParseFailure"

\* C16 witness: add_fact("parent(tom,bob).") added the fact parent(tom,bob).
AddedWithPeriodWitness ==
    /\ last.op = "add_fact"
    /\ last.text = Dotted(ParentText, 1)
    /\ last.ret = VBool(TRUE)
    /\ engine.kb = Append(last.kb_before,
                          CompoundTerm(<<"parent">>,
                                       <<AtomTerm(<<"tom">>), AtomTerm(<<"bob">>)>>))

\* --------------------------------------------- claims about blank inputs

\* The operations that take a predicate, goal, fact, pattern, code or
\* filename.
BlankCheckedOps == {"consult_file", "consult_string", "query", "query_all",
                   "query_one", "add_fact", "retract_fact", "retract_all",
                   "call_predicate", "call_function"}

\* C17 as stated: on an initialized instance a blank text given to any of the
\* ten operations is rejected before any call to the engine, with the
\* neutral failure value returned and an error recorded.
BlankInputRejectedBeforeEngine ==
    (/\ last.op \in BlankCheckedOps
     /\ last.was_initialized
     /\ last.text = <<>>)
        => /\ engine.log = <<>>
           /\ last.ret = NeutralOf(last.op)
           /\ last.why = "EmptyInput"
           /\ self.m_last_error # <<>>

\* --------------------------------------- claims about the on-error option

\* The kinds of failure of a query that leave a message in m_last_error.
RecordedKinds == {"EmptyInput", "ParseFailure", "ConversionFailure",
                  "EngineException"}

\* C18 as stated: an error recorded in m_last_error is logged when it is
\* recorded if "on error" is "print" or "halt", whatever its kind, and is not
\* logged if it is "status".
ErrorsLoggedAsOptionSays ==
    (/\ last.why \in RecordedKinds
     /\ Describes(self.m_last_error, last.op, last.why))
        => IF self.m_on_error \in {"print", "halt"}
           THEN last.printed = <<<<"Prologot: ">> \o self.m_last_error>>
           ELSE last.printed = <<>>

\* ------------------------------------ claims about calls made by name

\* The clauses there were before the last call that have its name, arity n,
\* and its converted arguments as their first arguments, in their order.
LastFactsFor(n) ==
    SelectSeq(last.kb_before,
              LAMBDA f : /\ TermName(f) = last.text
                         /\ Len(TermArgs(f)) = n
                         /\ \A i \in 1..Len(last.args) :
                               TermArgs(f)[i] = variant_to_term(last.args[i], {}))

\* C19: call_function(name, args) runs name(a1,..,an,R), each ai the
\* conversion of args[i] and R unbound, and returns the conversion of what
\* the first solution binds R to, Null when there is no solution or an
\* exception; call_predicate(name, args) runs name(a1,..,an) and returns
\* true exactly when it has a solution.
CallsRunNamedGoal ==
    /\ (last.op = "call_function" /\ last.was_initialized /\ last.text # <<>>)
          => last.ret =
                IF LastFactsFor(Len(last.args) + 1) # <<>>
                THEN term_to_variant(
                         TermArgs(LastFactsFor(Len(last.args) + 1)[1])[
                             Len(last.args) + 1])
                ELSE VNil
    /\ (last.op = "call_predicate" /\ last.was_initialized /\ last.text # <<>>)
          => last.ret = VBool(LastFactsFor(Len(last.args)) # <<>>)

\* C19 witness: with parent(tom, bob) before another parent(tom, _),
\* call_function("parent", ["tom"]) returned "bob".
FunctionFirstResultWitness ==
    /\ last.op = "call_function"
    /\ last.text = <<"parent">>
    /\ last.args = <<VStr(<<"tom">>)>>
    /\ Len(LastFactsFor(2)) = 2
    /\ LastFactsFor(2)[1] # LastFactsFor(2)[2]
    /\ last.ret = VStr(<<"bob">>)

\* ------------------------------------------ claims about predicate_exists

\* C20 as stated: on an initialized instance predicate_exists(name, arity)
\* returns true if and only if a procedure name/arity is defined, so false
\* for a pair that never was.
PredicateExistsIffDefined ==
    (last.op = "predicate_exists" /\ last.was_initialized)
        => last.ret = VBool(<<last.text, last.args[1].i>> \in UserProcedures(engine))

\* ------------------------------------------- claims about list_predicates

\* {"functor": name, "args": ["/", arity]}
NameSlashArity(ind) ==
    VDict({<<FunctorKey, VStr(ind[1])>>,
           <<ArgsKey, VArr(<<VStr(<<"/">>), VInt(ind[2])>>)>>})

\* C21 as stated: list_predicates() returns one mapping per defined
\* predicate, each {"functor": <name>, "args": ["/", <arity>]}.
ListedAsNameSlashArity ==
    (last.op = "list_predicates" /\ last.was_initialized /\ last.why = "ok")
        => /\ Len(last.ret.a) = Cardinality(UserProcedures(engine))
           /\ {last.ret.a[i] : i \in 1..Len(last.ret.a)}
                 = {NameSlashArity(ind) : ind \in UserProcedures(engine)}

\* --------------------------------------- claims about several instances

\* Prologot::get_singleton()
get_singleton == m_singleton

\* C22 as stated: while an instance is alive get_singleton() points at a
\* live instance, and it never points at a destroyed one; it is null only
\* when there is no instance.
SingletonIsALiveInstance ==
    /\ (\E o \in Objects : objects[o].alive)
          => get_singleton \in Objects /\ objects[get_singleton].alive
    /\ get_singleton \in Objects => objects[get_singleton].alive

\* C28 as stated: every live instance that reports initialized has a running
\* engine behind it, whatever the other instances did.
InitializedHasRunningEngine ==
    \A o \in Objects :
        objects[o].alive /\ is_initialized(objects[o].obj) => engine.running

\* ------------------------------------- claims about reading the solution

\* The places in the log of the last operation where call was made.
PlacesOf(call) == {i \in 1..Len(engine.log) : engine.log[i] = call}

\* C23: in query_one, query_all and call_function every read of a
\* solution's bindings comes after the step that produced the solution and
\* before the query is closed, and none comes after the close.
SolutionReadBeforeClose ==
    last.op \in {"query_one", "query_all", "call_function"}
        => \A i \in PlacesOf("read") :
              /\ \E j \in PlacesOf("PL_next_solution") : j < i
              /\ \E j \in PlacesOf("PL_close_query") : i < j
              /\ \A j \in PlacesOf("PL_close_query") : i < j

\* C23 witness: query_all returned solutions it read between the step and
\* the close.
ReadThenClosedWitness ==
    /\ last.op = "query_all"
    /\ last.ret.k = "arr" /\ Len(last.ret.a) > 0
    /\ PlacesOf("read") # {}
    /\ engine.log[Len(engine.log)] = "PL_close_query"
    /\ engine.log[Len(engine.log) - 1] = "read"
    /\ engine.log[Len(engine.log) - 2] = "PL_next_solution"

\* ------------------------------------------- claims about open queries

\* How many of the first n calls of the last operation were call.
CountIn(call, n) == Cardinality({i \in PlacesOf(call) : i <= n})

\* C24: at most one engine query is open at any moment: through every
\* operation, retract_all and list_predicates that delegate included, a
\* query is opened only when every query opened before has been closed.
AtMostOneQueryOpen ==
    \A n \in 0..Len(engine.log) :
        CountIn("PL_open_query", n) - CountIn("PL_close_query", n) \in {0, 1}

\* C24 witness: initialize opened and closed one query per helper clause,
\* one after the other.
QueriesInTurnWitness ==
    /\ last.op = "initialize"
    /\ last.ret = VBool(TRUE)
    /\ ~last.was_initialized
    /\ CountIn("PL_open_query", Len(engine.log)) = Len(BootstrapHeads)
    /\ CountIn("PL_close_query", Len(engine.log)) = Len(BootstrapHeads)

\* --------------------------------- claims about arguments that fail to convert

\* C25 as stated: when the conversion of an argument gives the invalid term,
\* call_predicate and call_function stop before the goal is constructed or
\* a query opened, return false / Null and record a conversion error.
FailedConversionStopsTheCall ==
    (/\ last.op \in {"call_predicate", "call_function"}
     /\ PlacesOf("PL_put_term(0)") # {})
        => /\ PlacesOf("PL_cons_functor_v") = {}
           /\ PlacesOf("PL_open_query") = {}
           /\ last.ret = NeutralOf(last.op)
           /\ last.why = "ConversionFailure"
           /\ Describes(self.m_last_error, last.op, last.why)

\* ------------------------------ claims about query_one against query_all

\* What query_all gives for the arguments of the last call, on the state
\* that call left.
AllOfLast ==
    query_all(self, Fresh(engine), last.text, last.args, NormalChoice).ret.a

\* The last call is a query_one of a goal for which query_all has a solution.
QueryOneOfSolvableGoal ==
    /\ last.op = "query_one"
    /\ last.was_initialized
    /\ Len(AllOfLast) > 0

AnonymousName == VStr(<<"_">>)

FailedInitializeLeavesNothing ==
    last.op = "initialize"
        => /\ last.ret = VBool(FALSE)
                => /\ ~is_initialized(self)
                   /\ ~engine.running
                   /\ get_last_error(self) # <<>>
                   /\ PlacesOf("PL_chars_to_term") # {}
                         => engine.log[Len(engine.log)] = "PL_cleanup"
           /\ (is_initialized(self) /\ ~last.was_initialized)
                => /\ last.ret = VBool(TRUE)
                   /\ engine.running
                   /\ engine.bootstrap = Len(BootstrapHeads)
                   /\ CountIn("PL_next_solution", Len(engine.log))
                         = Len(BootstrapHeads)
                   /\ PlacesOf("PL_cleanup") = {}

\* C27 witness: initialize() started the engine, failed on a bootstrap
\* clause, shut the engine down and returned false.
BootstrapFailureWitness ==
    /\ last.op = "initialize"
    /\ last.ret = VBool(FALSE)
    /\ engine.log[1] = "PL_initialise"
    /\ PlacesOf("PL_chars_to_term") # {}
    /\ engine.log[Len(engine.log)] = "PL_cleanup"
    /\ ~engine.running
    /\ ~is_initialized(self)
    /\ get_last_error(self) # <<>>

\* ------------------------------------- claims about the latest-error slot

\* One step leaves m_last_error alone unless the call it makes records an
\* error, and never empties it.
ErrorSlotStep ==
    /\ last'.why \in {"ok", "NoSolution"} => self'.m_last_error = self.m_last_error
    /\ self'.m_last_error # self.m_last_error
          => /\ self'.m_last_error # <<>>
             /\ last'.why \in RecordedKinds \cup {"InitFailure"}
    /\ self.m_last_error # <<>> => self'.m_last_error # <<>>
    /\ last'.op = "get_last_error" => last'.ret = VStr(self.m_last_error)

\* C29: m_last_error changes only when an error is recorded: a call that
\* succeeds or ends with no solution leaves it unchanged, and no call,
\* cleanup and a later initialize included, empties it; get_last_error()
\* returns it, so it is empty until the first error is recorded and the
\* latest recorded error afterwards.
ErrorSlotChangesOnlyOnError == [][ErrorSlotStep]_vars

\* C29 witness: an error recorded earlier is still there after a later
\* initialize that succeeded.
ErrorKeptByInitializeWitness ==
    /\ last.op = "initialize"
    /\ ~last.was_initialized
    /\ last.ret = VBool(TRUE)
    /\ get_last_error(self) # <<>>

\* ---------------------------------- claims about query against query_all

\* C30 as stated: for every goal text that query accepts, a conjunction
\* included, and every args, query returns true if and only if query_all
\* returns a non-empty list on the same knowledge base.
QueryAgreesWithQueryAll ==
    (/\ last.op = "query"
     /\ last.was_initialized
     /\ last.why \in {"ok", "NoSolution"})
        => (last.ret = VBool(TRUE) <=> Len(AllOfLast) > 0)

====
